---------------------------- MODULE Spec2Model ----------------------------
(***************************************************************************)
(* A model of the backend of sf-schema-viewer: the in-memory SessionStore  *)
(* (services/session.py), the batch describe orchestration                 *)
(* (services/salesforce.py), and the TTL caches of object lists, Data      *)
(* Cloud entity lists and Data Cloud credentials (services/datacloud.py).  *)
(*                                                                         *)
(* An optional value (Python's None) is a sequence of length at most one:  *)
(* None is << >> and a present value x is << x >>.                         *)
(***************************************************************************)
EXTENDS Integers, Sequences, FiniteSets, TLC

VARIABLES
    sessions,        \* SessionStore._sessions: session_id -> Session
    pending_states,  \* SessionStore._pending_states (its key set)
    now,             \* datetime.now(), in seconds
    next_sid,        \* number of session ids drawn so far (secrets.token_urlsafe)
    next_state,      \* number of OAuth states drawn so far (secrets.token_urlsafe)
    ret,             \* the last operation: its name, argument and return value
    removed,         \* the session ids the last operation removed from the store
    true_returns,    \* history: per OAuth state, how often validation returned True
    called,          \* history: the OAuth states validation was called with
    d_names,         \* describe_objects: the object_names of the request
    d_pc,            \* describe_objects: "idle" before the request, "done" after it
    d_results,       \* describe_objects: results, each describe by its object name
    d_errors,        \* describe_objects: errors, object name -> error message
    d_log,           \* describe_objects: the vendor calls and sub-responses, in order
    d_resp,          \* POST /objects/describe: the response of the route
    timer,           \* the timer of the TTL caches (time.monotonic), in seconds
    objects_cache,   \* salesforce._objects_cache: key -> [val, expires]
    dc_entities_cache, \* datacloud._dc_entities_cache: key -> [val, expires]
    dc_token_cache,  \* datacloud._dc_token_cache: key -> [val, expires]
    c_ret,           \* the last cache-backed operation and what it returned
    inserted,        \* history: per cache and key, the last insertion [at, val]
    lost,            \* history: the <<cache, key>> evicted or cleared since inserted
    thr,             \* per thread: the store operation it runs and where it is
    removals,        \* history: per session id, the deletions that took effect
    counted,         \* history: per session id, how often a cleanup counted it
    cb,              \* per GET /callback request: where its coroutine is
    running,         \* the request whose coroutine holds the event loop, or 0
    dc,              \* the DataCloudService of a describe request and its progress
    fn,              \* a function of the services: its name, argument and value
    rf               \* the POST /refresh request in flight, or the last one served

session_vars == <<sessions, pending_states, now, next_sid, next_state, ret, removed,
                  true_returns, called>>

describe_vars == <<d_names, d_pc, d_results, d_errors, d_log, d_resp>>

cache_vars == <<timer, objects_cache, dc_entities_cache, dc_token_cache, c_ret,
                inserted, lost>>

thread_vars == <<thr, removals, counted>>

callback_vars == <<cb, running>>

entity_vars == <<dc>>

pure_vars == <<fn>>

refresh_vars == <<rf>>

non_session_vars == <<describe_vars, cache_vars, thread_vars, callback_vars,
                      entity_vars, pure_vars, refresh_vars>>

non_describe_vars == <<session_vars, cache_vars, thread_vars, callback_vars,
                       entity_vars, pure_vars, refresh_vars>>

non_cache_vars == <<session_vars, describe_vars, thread_vars, callback_vars,
                    entity_vars, pure_vars, refresh_vars>>

vars == <<session_vars, describe_vars, cache_vars, thread_vars, callback_vars,
          entity_vars, pure_vars, refresh_vars>>

None == << >>
Some(x) == << x >>

\* What the last operation was called with, what it returned, and the exception
\* it raised ("" when it returned normally).
Ret(op, arg, val, exc) == [op |-> op, arg |-> arg, val |-> val, exc |-> exc]

-----------------------------------------------------------------------------
(* Bounds of the model *)

MaxSessions == 2     \* session ids drawn in one behaviour
MaxStates == 2       \* OAuth states drawn in one behaviour

(* Program constants *)

SessionDays == 7
SessionTTL == SessionDays * 86400

\* The instants the clock is observed at: around creation and around expiry.
Times == {0, 1, SessionTTL, SessionTTL + 1, 2 * SessionTTL + 2}

\* What a login supplies to create_session: tokens and identity fields.
Logins ==
    { [access_token |-> "a1", refresh_token |-> Some("r1"),
       instance_url |-> "https://org1", user_id |-> "u1",
       username |-> "ann", org_id |-> "o1"],
      [access_token |-> "a2", refresh_token |-> None,
       instance_url |-> "https://org1", user_id |-> "u2",
       username |-> "bob", org_id |-> "o1"] }

SessionIds == 1 .. MaxSessions
\* 0 stands for a value that secrets.token_urlsafe never produced.
Forged == 0
OAuthStates == 1 .. MaxStates

-----------------------------------------------------------------------------
(* SessionStore *)

\* Session(...) as create_session builds it.
NewSession_without_refresh(sid, login, t) ==
    [session_id |-> sid,
     access_token |-> login.access_token,
     refresh_token |-> None,
     instance_url |-> login.instance_url,
     user_id |-> login.user_id,
     username |-> login.username,
     org_id |-> login.org_id,
     org_name |-> None,
     org_type |-> None,
     instance_name |-> None,
     created_at |-> t,
     expires_at |-> t + SessionTTL]

NewSession(sid, login, t) ==
    [session_id |-> sid,
     access_token |-> login.access_token,
     refresh_token |-> login.refresh_token,
     instance_url |-> login.instance_url,
     user_id |-> login.user_id,
     username |-> login.username,
     org_id |-> login.org_id,
     org_name |-> None,
     org_type |-> None,
     instance_name |-> None,
     created_at |-> t,
     expires_at |-> t + SessionTTL]

\* A mutant: the comparison of get_session turned around.
is_expired_reversed(session, t) == t < session.expires_at

\* session.expires_at and datetime.now() > session.expires_at
is_expired(session, t) == t > session.expires_at

\* The mapping without key sid (del self._sessions[sid]).
Without(store, sid) == [k \in (DOMAIN store) \ {sid} |-> store[k]]

\* delete_session: the store it leaves, and its return value.
delete_session_store(store, sid) ==
    IF sid \in DOMAIN store THEN Without(store, sid) ELSE store

delete_session_ret_true(store, sid) == TRUE

delete_session_ret(store, sid) == sid \in DOMAIN store

\* get_session: the store it leaves, and its return value.
get_session_store(store, sid, t) ==
    IF sid \in DOMAIN store /\ is_expired(store[sid], t)
    THEN delete_session_store(store, sid)
    ELSE store

get_session_ret(store, sid, t) ==
    IF sid \in DOMAIN store
    THEN IF is_expired(store[sid], t) THEN None ELSE Some(store[sid])
    ELSE None

expired_ids_inclusive(store, t) ==
    {sid \in DOMAIN store : t >= store[sid].expires_at}

\* cleanup_expired: the ids it removes.
expired_ids(store, t) == {sid \in DOMAIN store : is_expired(store[sid], t)}

SessionInit ==
    /\ sessions = << >>
    /\ pending_states = {}
    /\ now = 0
    /\ next_sid = 0
    /\ next_state = 0
    /\ ret = Ret("init", 0, None, "")
    /\ removed = {}
    /\ true_returns = [s \in OAuthStates |-> 0]
    /\ called = {}

\* No batch describe request is in progress.
DescribeIdle ==
    /\ d_names = << >>
    /\ d_pc = "idle"
    /\ d_results = << >>
    /\ d_errors = << >>
    /\ d_log = << >>
    /\ d_resp = [status |-> 0, objects |-> << >>, errors |-> None]

\* What a cache-backed operation did: the cache reads and writes it made, the
\* vendor calls it issued, the value it returned and the exception it raised.
NoEffect(cache, t) ==
    [cache |-> cache, reads |-> << >>, writes |-> << >>, vendor |-> << >>,
     val |-> None, exc |-> "", end |-> t]

NoService == [access_token |-> "", instance_url |-> "", api_version |-> ""]

CRet(op, svc, arg, use_cache, r) ==
    [op |-> op, svc |-> svc, arg |-> arg, use_cache |-> use_cache,
     reads |-> r.reads, writes |-> r.writes, vendor |-> r.vendor,
     val |-> r.val, exc |-> r.exc]

\* The caches are empty and no cache-backed operation has run.
CacheIdle ==
    /\ timer = 0
    /\ objects_cache = << >>
    /\ dc_entities_cache = << >>
    /\ dc_token_cache = << >>
    /\ c_ret = CRet("init", NoService, None, FALSE, NoEffect(<< >>, 0))
    /\ inserted = [c \in {"objects", "dc_entities", "dc_token"} |-> << >>]
    /\ lost = {}

\* The threads that run store operations side by side.
MaxThreads == 2

Threads == 1 .. MaxThreads

\* A thread that has not called the store yet.
IdleThread ==
    [op |-> "", pc |-> "idle", sid |-> 0, now |-> 0, used |-> 0, it |-> 0,
     expired |-> << >>, k |-> 1, val |-> None, exc |-> ""]

ThreadsIdle ==
    /\ thr = [t \in Threads |-> IdleThread]
    /\ removals = << >>
    /\ counted = << >>

\* The GET /callback requests in flight.
MaxRequests == 2

Requests == 1 .. MaxRequests

\* A request that has not reached the server yet (calls: the requests it has
\* sent to the vendor).
NewRequest == [pc |-> "new", state |-> 0, valid |-> None, status |-> 0,
               sid |-> None, exc |-> "", calls |-> 0]

CallbackIdle ==
    /\ cb = [r \in Requests |-> NewRequest]
    /\ running = 0

\* What a call of _exchange_token did, without the cache it leaves.
Effect(r) ==
    [reads |-> r.reads, writes |-> r.writes, vendor |-> r.vendor,
     val |-> r.val, exc |-> r.exc]

\* No describe request of Data Cloud entities has been served.
NoRequest ==
    [op |-> "", svc |-> [sf_access_token |-> "", sf_instance_url |-> << >>],
     credentials |-> None, names |-> << >>, i |-> 0, results |-> << >>,
     errors |-> << >>, calls |-> << >>, asked |-> FALSE, answer |-> "",
     x |-> Effect(NoEffect(<< >>, 0)), status |-> "idle", exc |-> ""]

EntitiesIdle == dc = NoRequest

\* A function applied to an argument: before (op "") and after.
Applied(op, arg, val) == [op |-> op, arg |-> arg, val |-> val]

\* A POST /refresh request: where it is, the session id of its cookie, the
\* requests it sent to the vendor, the status the vendor answered with, and
\* the status and detail of its response.
Refresh(pc, cookie, vendor, status, detail) ==
    [pc |-> pc, cookie |-> cookie, vendor |-> vendor, answer |-> "",
     status |-> status, detail |-> detail]

RefreshIdle == rf = Refresh("idle", << >>, << >>, 0, "")

\* No function is being looked at.
PureIdle == fn = Applied("", None, None)

Init ==
    /\ SessionInit
    /\ DescribeIdle
    /\ CacheIdle
    /\ ThreadsIdle
    /\ CallbackIdle
    /\ EntitiesIdle
    /\ RefreshIdle
    /\ PureIdle

create_session ==
    \E login \in Logins :
        /\ next_sid < MaxSessions
        /\ next_sid' = next_sid + 1
        /\ sessions' = [k \in (DOMAIN sessions) \cup {next_sid + 1} |->
                          IF k = next_sid + 1
                          THEN NewSession(next_sid + 1, login, now)
                          ELSE sessions[k]]
        /\ removed' = (DOMAIN sessions) \ (DOMAIN sessions')
        /\ ret' = Ret("create_session", login, Some(next_sid + 1), "")
        /\ UNCHANGED <<pending_states, now, next_state, true_returns, called>>
        /\ UNCHANGED non_session_vars

get_session ==
    \E sid \in SessionIds \cup {Forged} :
        /\ sessions' = get_session_store(sessions, sid, now)
        /\ removed' = (DOMAIN sessions) \ (DOMAIN sessions')
        /\ ret' = Ret("get_session", sid, get_session_ret(sessions, sid, now), "")
        /\ UNCHANGED <<pending_states, now, next_sid, next_state, true_returns, called>>
        /\ UNCHANGED non_session_vars

delete_session ==
    \E sid \in SessionIds \cup {Forged} :
        /\ sessions' = delete_session_store(sessions, sid)
        /\ removed' = (DOMAIN sessions) \ (DOMAIN sessions')
        /\ ret' = Ret("delete_session", sid, Some(delete_session_ret(sessions, sid)), "")
        /\ UNCHANGED <<pending_states, now, next_sid, next_state, true_returns, called>>
        /\ UNCHANGED non_session_vars

cleanup_expired ==
    /\ sessions' = [k \in (DOMAIN sessions) \ expired_ids(sessions, now) |-> sessions[k]]
    /\ removed' = (DOMAIN sessions) \ (DOMAIN sessions')
    /\ ret' = Ret("cleanup_expired", 0, Some(Cardinality(expired_ids(sessions, now))), "")
    /\ UNCHANGED <<pending_states, now, next_sid, next_state, true_returns, called>>
    /\ UNCHANGED non_session_vars

update_tokens_store_clearing(store, sid, access_token, refresh_token) ==
    IF sid \in DOMAIN store
    THEN [store EXCEPT ![sid] =
            [@ EXCEPT !.access_token = access_token,
                      !.refresh_token = refresh_token]]
    ELSE store

\* A mutant: a refresh renews the lifetime of the session.
update_tokens_store_extending(store, sid, access_token, refresh_token) ==
    IF sid \in DOMAIN store
    THEN [store EXCEPT ![sid] =
            [@ EXCEPT !.access_token = access_token,
                      !.refresh_token =
                          IF refresh_token # None /\ refresh_token # Some("")
                          THEN refresh_token ELSE @,
                      !.expires_at = @ + SessionTTL]]
    ELSE store

\* update_tokens: the store it leaves, and its return value.
update_tokens_store(store, sid, access_token, refresh_token) ==
    IF sid \in DOMAIN store
    THEN [store EXCEPT ![sid] =
            [@ EXCEPT !.access_token = access_token,
                      !.refresh_token =
                          IF refresh_token # None /\ refresh_token # Some("")
                          THEN refresh_token ELSE @]]
    ELSE store

update_tokens_ret(store, sid) == sid \in DOMAIN store

\* The refresh token a refresh response carries: none, an empty one, a new one.
RefreshTokens == {None, Some(""), Some("r3")}

update_tokens_call(sid, access_token, refresh_token) ==
    /\ sessions' = update_tokens_store(sessions, sid, access_token, refresh_token)
    /\ removed' = (DOMAIN sessions) \ (DOMAIN sessions')
    /\ ret' = Ret("update_tokens", sid, Some(update_tokens_ret(sessions, sid)), "")
    /\ UNCHANGED <<pending_states, now, next_sid, next_state, true_returns, called>>
    /\ UNCHANGED non_session_vars

update_tokens ==
    \E sid \in SessionIds \cup {Forged}, refresh_token \in RefreshTokens :
        update_tokens_call(sid, "a3", refresh_token)

\* A value given for a field of the organization: none, an empty string, or
\* a name (Python tests it for truth: the first two are false).
truthy(value) == value # None /\ value # Some("")

overwrite_always(old, value) == value

\* `if value: session.field = value`
overwrite(old, value) == IF truthy(value) THEN value ELSE old

\* update_org_info: the store it leaves, and its return value.
update_org_info_store(store, sid, org_name, org_type, instance_name) ==
    IF sid \in DOMAIN store
    THEN [store EXCEPT ![sid] =
            [@ EXCEPT !.org_name = overwrite(@, org_name),
                      !.org_type = overwrite(@, org_type),
                      !.instance_name = overwrite(@, instance_name)]]
    ELSE store

update_org_info_ret(store, sid) == sid \in DOMAIN store

\* The Organization record get_session_info reads, as the three arguments
\* it passes on: Name (empty when missing), OrganizationType, InstanceName.
OrgRecord(org_name, org_type, instance_name) ==
    [org_name |-> org_name, org_type |-> org_type,
     instance_name |-> instance_name]

OrgRecords ==
    { OrgRecord(Some(""), None, None),
      OrgRecord(Some("Acme"), Some("Developer Edition"), None),
      OrgRecord(Some("Globex"), None, Some("NA124")),
      OrgRecord(Some("Globex"), Some(""), Some("")) }

update_org_info_call(sid, org_name, org_type, instance_name) ==
    /\ sessions' = update_org_info_store(sessions, sid, org_name, org_type,
                                         instance_name)
    /\ removed' = (DOMAIN sessions) \ (DOMAIN sessions')
    /\ ret' = Ret("update_org_info", sid,
                  Some(update_org_info_ret(sessions, sid)), "")
    /\ UNCHANGED <<pending_states, now, next_sid, next_state, true_returns, called>>
    /\ UNCHANGED non_session_vars

update_org_info ==
    \E sid \in SessionIds \cup {Forged}, org \in OrgRecords :
        update_org_info_call(sid, org.org_name, org.org_type,
                             org.instance_name)

\* create_oauth_state: a fresh random state is recorded as pending.
create_oauth_state ==
    /\ next_state < MaxStates
    /\ next_state' = next_state + 1
    /\ pending_states' = pending_states \cup {next_state + 1}
    /\ removed' = {}
    /\ ret' = Ret("create_oauth_state", 0, Some(next_state + 1), "")
    /\ UNCHANGED <<sessions, now, next_sid, true_returns, called>>
    /\ UNCHANGED non_session_vars

\* A mutant: the state is recognised but not consumed.
validate_oauth_state_keep(pending, state) == pending

\* validate_oauth_state: the pending set it leaves, and its return value.
validate_oauth_state_pending(pending, state) == pending \ {state}

validate_oauth_state_ret(pending, state) == state \in pending

\* Validation is called with a state issued so far or with a forged one.
validate_oauth_state ==
    \E state \in (1 .. next_state) \cup {Forged} :
        /\ pending_states' = validate_oauth_state_pending(pending_states, state)
        /\ removed' = {}
        /\ ret' = Ret("validate_oauth_state", state,
                      Some(validate_oauth_state_ret(pending_states, state)), "")
        /\ called' = called \cup {state}
        /\ true_returns' =
              IF validate_oauth_state_ret(pending_states, state) /\ state \in OAuthStates
              THEN [true_returns EXCEPT ![state] = IF @ < 2 THEN @ + 1 ELSE @]
              ELSE true_returns
        /\ UNCHANGED <<sessions, now, next_sid, next_state>>
        /\ UNCHANGED non_session_vars

\* get_current_session (routers/schema.py, routers/datacloud.py): the request's
\* session cookie is resolved, or the request is rejected with 401.
get_current_session ==
    \E cookie \in {None} \cup {Some(sid) : sid \in SessionIds \cup {Forged}} :
        /\ sessions' = IF cookie = None THEN sessions
                       ELSE get_session_store(sessions, cookie[1], now)
        /\ removed' = (DOMAIN sessions) \ (DOMAIN sessions')
        /\ ret' = IF cookie = None
                  THEN Ret("get_current_session", Forged, None, "SessionNotFoundError")
                  ELSE IF get_session_ret(sessions, cookie[1], now) = None
                       THEN Ret("get_current_session", cookie[1], None, "SessionNotFoundError")
                       ELSE Ret("get_current_session", cookie[1],
                                get_session_ret(sessions, cookie[1], now), "")
        /\ UNCHANGED <<pending_states, now, next_sid, next_state, true_returns, called>>
        /\ UNCHANGED non_session_vars

\* The clock moves on to a later instant.
Advance ==
    \E t \in Times :
        /\ t > now
        /\ now' = t
        /\ removed' = {}
        /\ ret' = Ret("advance", 0, None, "")
        /\ UNCHANGED <<sessions, pending_states, next_sid, next_state, true_returns, called>>
        /\ UNCHANGED non_session_vars

\* The session map under every sequence of its operations and clock advances.
Next ==
    \/ create_session
    \/ get_session
    \/ delete_session
    \/ cleanup_expired
    \/ update_tokens
    \/ get_current_session
    \/ Advance

Spec == Init /\ [][Next]_vars

\* The pending OAuth states under every sequence of store operations.
NextOAuth ==
    \/ create_oauth_state
    \/ validate_oauth_state
    \/ create_session
    \/ get_session
    \/ delete_session
    \/ cleanup_expired

SpecOAuth == Init /\ [][NextOAuth]_vars

\* Sessions and OAuth states are created and sessions are looked up, while
\* the clock moves on.
NextLookup ==
    \/ create_oauth_state
    \/ create_session
    \/ get_session
    \/ Advance

SpecLookup == Init /\ [][NextLookup]_vars

\* Sessions and OAuth states are created and the store is swept, while the
\* clock moves on.
NextCleanup ==
    \/ create_oauth_state
    \/ create_session
    \/ cleanup_expired
    \/ Advance

SpecCleanup == Init /\ [][NextCleanup]_vars

\* A mutant: the refresh request is sent whatever the session holds.
refresh_started_unchecked(sid, session) ==
    IF session = None
    THEN Refresh("done", Some(sid), << >>, 401, "Session expired or invalid")
    ELSE Refresh("await", Some(sid),
                 <<[call |-> "refresh",
                    refresh_token |-> session[1].refresh_token]>>, 0, "")

\* POST /refresh up to its await, for the session get_session returned: 401
\* without a session or without a refresh token, else the refresh request is
\* sent to the vendor.
refresh_started(sid, session) ==
    IF session = None
    THEN Refresh("done", Some(sid), << >>, 401, "Session expired or invalid")
    ELSE IF ~ truthy(session[1].refresh_token)
    THEN Refresh("done", Some(sid), << >>, 401,
                 "No refresh token available. Please log in again.")
    ELSE Refresh("await", Some(sid),
                 <<[call |-> "refresh",
                    refresh_token |-> session[1].refresh_token]>>, 0, "")

\* A POST /refresh request arrives with the cookie (None: without one).
refresh_in(cookie) ==
    /\ rf.pc # "await"
    /\ IF cookie = None
       THEN /\ rf' = Refresh("done", None, << >>, 401, "Not authenticated")
            /\ UNCHANGED session_vars
       ELSE /\ sessions' = get_session_store(sessions, cookie[1], now)
            /\ removed' = (DOMAIN sessions) \ (DOMAIN sessions')
            /\ ret' = Ret("get_session", cookie[1],
                          get_session_ret(sessions, cookie[1], now), "")
            /\ rf' = refresh_started(cookie[1],
                                     get_session_ret(sessions, cookie[1], now))
            /\ UNCHANGED <<pending_states, now, next_sid, next_state,
                           true_returns, called>>
    /\ UNCHANGED <<describe_vars, cache_vars, thread_vars, callback_vars,
                   entity_vars, pure_vars>>

Cookies == {None} \cup { Some(sid) : sid \in SessionIds \cup {Forged} }

refresh_token_in == \E cookie \in Cookies : refresh_in(cookie)

\* What the vendor answers to the refresh request: no answer (transport
\* error), invalid_grant, an outage, or new tokens, with or without a new
\* refresh token or without the access token.
TokenAnswer(status, access_token, refresh_token) ==
    [status |-> status, access_token |-> access_token,
     refresh_token |-> refresh_token]

RefreshAnswers ==
    { TokenAnswer("exc", None, None),
      TokenAnswer("400", None, None),
      TokenAnswer("503", None, None),
      TokenAnswer("200", None, None),
      TokenAnswer("200", Some("a3"), None),
      TokenAnswer("200", Some("a3"), Some("r3")) }

\* The response made of the answer.
refresh_response(request, answer) ==
    [request EXCEPT
        !.pc = "done",
        !.answer = answer.status,
        !.status = IF answer.status = "exc" THEN 500
                   ELSE IF answer.status # "200" THEN 401
                   ELSE IF answer.access_token = None THEN 500
                   ELSE 200,
        !.detail = IF answer.status = "exc" THEN "Internal Server Error"
                   ELSE IF answer.status # "200"
                   THEN "Refresh token expired. Please log in again."
                   ELSE IF answer.access_token = None
                   THEN "Internal Server Error"
                   ELSE "Token refreshed successfully"]

\* POST /refresh after its await: every status but 200 deletes the session,
\* 200 updates its tokens (the result of update_tokens is not looked at).
refresh_answered(sid, answer) ==
    /\ rf.pc = "await"
    /\ rf' = refresh_response(rf, answer)
    /\ IF answer.status = "exc" \/ (answer.status = "200"
                                    /\ answer.access_token = None)
       THEN UNCHANGED session_vars
       ELSE /\ IF answer.status # "200"
               THEN /\ sessions' = delete_session_store(sessions, sid)
                    /\ ret' = Ret("delete_session", sid,
                                  Some(delete_session_ret(sessions, sid)), "")
               ELSE /\ sessions' = update_tokens_store(
                                       sessions, sid, answer.access_token[1],
                                       answer.refresh_token)
                    /\ ret' = Ret("update_tokens", sid,
                                  Some(update_tokens_ret(sessions, sid)), "")
            /\ removed' = (DOMAIN sessions) \ (DOMAIN sessions')
            /\ UNCHANGED <<pending_states, now, next_sid, next_state,
                           true_returns, called>>
    /\ UNCHANGED <<describe_vars, cache_vars, thread_vars, callback_vars,
                   entity_vars, pure_vars>>

refresh_token_answered ==
    \E answer \in RefreshAnswers : refresh_answered(rf.cookie[1], answer)

\* Logins, refreshes and logouts, while the clock moves on.
NextRefresh ==
    \/ create_session
    \/ refresh_token_in
    \/ refresh_token_answered
    \/ delete_session
    \/ Advance

SpecRefresh == Init /\ [][NextRefresh]_vars

(***************************************************************************)
(* GET /objects/{object_name}/describe.  The text str(e) of a vendor error  *)
(* names the request and quotes the vendor's response; a text is the        *)
(* sequence of its pieces, cut around every occurrence of NOT_FOUND and     *)
(* INVALID_TYPE, so that "marker in text" is "marker is a piece".           *)
(***************************************************************************)
Pieces(text) ==
    CASE text = "INVALID_TYPE_FOR_OPERATION" ->
             <<"INVALID_TYPE", "_FOR_OPERATION">>
      [] text = "NOT_FOUND_Log__c" -> <<"NOT_FOUND", "_Log__c">>
      [] OTHER -> <<text>>

\* "marker" in text
contains(text, marker) == \E i \in DOMAIN text : text[i] = marker

ObjectNames == {"Account", "NOT_FOUND_Log__c"}

\* The error codes of the vendor: the object does not exist (NOT_FOUND),
\* the name is no object type (INVALID_TYPE), and errors of other kinds.
NotFoundCodes == {"NOT_FOUND", "INVALID_TYPE"}

ErrorCodes ==
    NotFoundCodes \cup {"INVALID_SESSION_ID", "REQUEST_LIMIT_EXCEEDED",
                        "INVALID_TYPE_FOR_OPERATION"}

\* What describe_object does: it returns, raises a SalesforceError for the
\* vendor's error code, or raises another exception (transport, transform).
Outcome(kind, code) == [kind |-> kind, code |-> code]

DescribeOutcomes ==
    {Outcome("ok", ""), Outcome("Exception", "")}
        \cup { Outcome("SalesforceError", c) : c \in ErrorCodes }

\* str(e) of the SalesforceError raised for the object and the error code.
error_text(object_name, code) ==
    <<"Error for ">> \o Pieces(object_name)
        \o <<". Response content: ">> \o Pieces(code)

RouteResponse(status, detail, vendor) ==
    [status |-> status, detail |-> detail, vendor |-> vendor]

\* The response of the route for the session get_current_session resolved
\* (None: it raised SessionNotFoundError) and the outcome of describe_object.
describe_object_response(session, object_name, outcome) ==
    IF session = None
    THEN RouteResponse(401, "Not authenticated. Please log in.", << >>)
    ELSE LET call == <<[call |-> "describe", name |-> object_name,
                        token |-> session[1].access_token]>>
             text == error_text(object_name, outcome.code)
         IN  IF outcome.kind = "ok"
             THEN RouteResponse(200, "", call)
             ELSE IF outcome.kind = "SalesforceError"
             THEN IF contains(text, "NOT_FOUND")
                     \/ contains(text, "INVALID_TYPE")
                  THEN RouteResponse(404, "not found or not accessible", call)
                  ELSE RouteResponse(502, "Failed to describe", call)
             ELSE RouteResponse(502, "Unexpected error describing", call)

\* The request with its cookie resolved to session.
describe_object_for(cookie, session, object_name, outcome) ==
    /\ sessions' = IF cookie = None THEN sessions
                   ELSE get_session_store(sessions, cookie[1], now)
    /\ removed' = (DOMAIN sessions) \ (DOMAIN sessions')
    /\ ret' = Ret("describe_object",
                  [session |-> session, object_name |-> object_name,
                   outcome |-> outcome],
                  Some(describe_object_response(session, object_name,
                                                outcome)), "")
    /\ UNCHANGED <<pending_states, now, next_sid, next_state, true_returns,
                   called>>
    /\ UNCHANGED non_session_vars

describe_object_route ==
    \E cookie \in Cookies, object_name \in ObjectNames,
       outcome \in DescribeOutcomes :
        describe_object_for(
            cookie,
            IF cookie = None THEN None
            ELSE get_session_ret(sessions, cookie[1], now),
            object_name, outcome)

NextRoute == create_session \/ describe_object_route \/ Advance

SpecRoute == Init /\ [][NextRoute]_vars

\* Sessions are created and the organization's details are cached on them.
NextOrg ==
    \/ create_session
    \/ update_org_info

SpecOrg == Init /\ [][NextOrg]_vars

\* The tokens of a session are refreshed and the details of its organization
\* are cached, as POST /refresh and GET /session-info do it.
refresh_tokens ==
    \E sid \in SessionIds : update_tokens_call(sid, "a3", Some("r3"))

cache_org_info ==
    \E sid \in SessionIds :
        update_org_info_call(sid, Some("Acme"), Some("Developer Edition"),
                             Some("NA124"))

\* The life of a session: created, refreshed, completed and looked up, while
\* the clock moves on.
NextLifetime ==
    \/ create_session
    \/ refresh_tokens
    \/ cache_org_info
    \/ get_session
    \/ Advance

SpecLifetime == Init /\ [][NextLifetime]_vars

-----------------------------------------------------------------------------
(* Properties of the session store *)

\* C1: get_session never returns a session whose expires_at is earlier than the
\* current time: a session found expired is removed from the store and absent
\* is returned (so the id is in the store afterwards exactly when a session was
\* returned, and the returned session is the stored one), and
\* get_current_session then rejects the request with SessionNotFoundError.
C1_ExpiredNeverExposed ==
    /\ ret.op \in {"get_session", "get_current_session"} =>
          /\ ret.val # None =>
                /\ ret.val[1].expires_at >= now
                /\ ret.arg \in DOMAIN sessions
                /\ sessions[ret.arg] = ret.val[1]
          /\ ret.val = None => ret.arg \notin DOMAIN sessions
          /\ removed \subseteq {ret.arg}
    /\ ret.op = "get_current_session" =>
          (ret.exc = "SessionNotFoundError" <=> ret.val = None)
    /\ ret.op = "get_session" => ret.exc = ""

\* C1 witness: a request whose cookie names a session that this very lookup
\* found expired and removed is rejected as unauthenticated.
C1_Witness ==
    /\ ret.op = "get_current_session"
    /\ ret.exc = "SessionNotFoundError"
    /\ ret.arg \in removed

\* C2: validate_oauth_state(s) returns true exactly once for an issued state s,
\* on its first call; every later call with s, and every call with a value that
\* was never issued, returns false, and no call raises.
C2_ValidatesExactlyOnce ==
    /\ \A s \in OAuthStates :
          /\ true_returns[s] <= 1
          /\ s \in called => true_returns[s] = 1 /\ s \notin pending_states
          /\ s \notin called => true_returns[s] = 0
          /\ s > next_state => s \notin pending_states
    /\ ret.op = "validate_oauth_state" =>
          /\ ret.exc = ""
          /\ ret.arg = Forged => ret.val = Some(FALSE)
          /\ ret.val \in {Some(TRUE), Some(FALSE)}

\* C2 witness: a second validation of an issued, already consumed state has
\* returned false.
C2_Witness ==
    /\ ret.op = "validate_oauth_state"
    /\ ret.arg \in OAuthStates
    /\ ret.val = Some(FALSE)
    /\ true_returns[ret.arg] = 1

\* The fields of a session that create_session was given.
Given(session) ==
    [access_token |-> session.access_token,
     refresh_token |-> session.refresh_token,
     instance_url |-> session.instance_url,
     user_id |-> session.user_id,
     username |-> session.username,
     org_id |-> session.org_id]

\* C13: a get_session for the id that create_session has just returned
\* returns a session with that id and exactly the tokens and identity fields
\* create_session was given; and every get_session for a stored session that
\* has not expired returns the stored session and leaves the session map and
\* the pending states as they were, so that repeated calls return equal
\* results.
C13_ReadsWhatWasCreated ==
    [][ret'.op = "get_session" =>
          /\ (ret.op = "create_session" /\ ret'.arg = ret.val[1]) =>
                /\ ret'.val # None
                /\ ret'.val[1].session_id = ret.val[1]
                /\ Given(ret'.val[1]) = ret.arg
          /\ (ret'.arg \in DOMAIN sessions
                /\ ~ (now > sessions[ret'.arg].expires_at)) =>
                /\ ret'.val = Some(sessions[ret'.arg])
                /\ sessions' = sessions
                /\ pending_states' = pending_states
          /\ (ret.op = "get_session" /\ ret.arg = ret'.arg
                /\ ret.val # None /\ ret'.val # None) => ret'.val = ret.val
    ]_vars

\* The session created second, with no refresh token, is read at the last
\* instant before it expires while an OAuth state is pending.
C13_Witness ==
    /\ ret.op = "get_session"
    /\ ret.arg = 2
    /\ ret.val # None
    /\ ret.val[1].refresh_token = None
    /\ now = ret.val[1].expires_at
    /\ now > 0
    /\ pending_states # {}

\* A session without its two tokens.
Untokened(session) ==
    [session EXCEPT !.access_token = "", !.refresh_token = None]

\* C14: update_tokens(id, a, r) on a stored session returns true, sets its
\* access token to a, sets its refresh token to r when r is a non-empty value
\* and otherwise leaves it (an omitted r never clears it), and changes no
\* other field, no other session and no pending state; on an id that is not
\* in the store it returns false and changes nothing.
C14_UpdateTokensFrame ==
    [][\A sid \in SessionIds \cup {Forged}, r \in RefreshTokens :
          update_tokens_call(sid, "a3", r) =>
              /\ pending_states' = pending_states
              /\ IF sid \in DOMAIN sessions
                 THEN /\ ret'.val = Some(TRUE)
                      /\ DOMAIN sessions' = DOMAIN sessions
                      /\ \A k \in (DOMAIN sessions) \ {sid} :
                             sessions'[k] = sessions[k]
                      /\ sessions'[sid].access_token = "a3"
                      /\ r = None => sessions'[sid].refresh_token
                                         = sessions[sid].refresh_token
                      /\ r \notin {None, Some("")} =>
                             sessions'[sid].refresh_token = r
                      /\ sessions'[sid].refresh_token
                             \in {sessions[sid].refresh_token, r}
                      /\ Untokened(sessions'[sid]) = Untokened(sessions[sid])
                 ELSE /\ ret'.val = Some(FALSE)
                      /\ sessions' = sessions
    ]_vars

\* Of two stored sessions the first has a new access token and still the
\* refresh token it was created with.
C14_Witness ==
    /\ ret.op = "update_tokens"
    /\ ret.arg = 1
    /\ ret.val = Some(TRUE)
    /\ DOMAIN sessions = {1, 2}
    /\ sessions[1].access_token = "a3"
    /\ sessions[1].refresh_token = Some("r1")
    /\ sessions[2].access_token # "a3"

\* C39: no operation of the store changes anything of a stored session but
\* its tokens and the cached details of its organization: its id, its
\* creation time, its expiry (creation plus 7 days) and its identity fields
\* stay; and get_session returns no session later than 7 days after the
\* session was created.
C39_LifetimeIsFixedAtCreation ==
    [][/\ \A sid \in (DOMAIN sessions) \cap (DOMAIN sessions') :
              LET before == sessions[sid]
                  after == sessions'[sid]
              IN  /\ after.session_id = before.session_id
                  /\ after.created_at = before.created_at
                  /\ after.expires_at = before.expires_at
                  /\ after.user_id = before.user_id
                  /\ after.username = before.username
                  /\ after.org_id = before.org_id
                  /\ after.instance_url = before.instance_url
       /\ \A sid \in DOMAIN sessions' :
              /\ sessions'[sid].session_id = sid
              /\ sessions'[sid].expires_at
                     = sessions'[sid].created_at + SessionDays * 86400
       /\ (ret'.op = "get_session" /\ ret'.val # None) =>
              now' <= ret'.val[1].created_at + SessionDays * 86400
    ]_vars

\* A session whose tokens were refreshed and whose organization was cached
\* is returned at the last instant of its seventh day.
C39_Witness ==
    /\ ret.op = "get_session"
    /\ ret.val # None
    /\ ret.val[1].access_token = "a3"
    /\ ret.val[1].org_name = Some("Acme")
    /\ ret.val[1].created_at = 1
    /\ now = ret.val[1].created_at + SessionDays * 86400

\* A session without the cached details of its organization.
Unorganized(session) ==
    [session EXCEPT !.org_name = None, !.org_type = None,
                    !.instance_name = None]

\* The field after the call: the value supplied when it is non-empty, the
\* value held before otherwise.
Overwritten(old, value, new) ==
    new = IF value \notin {None, Some("")} THEN value ELSE old

\* C15: update_org_info overwrites each of org_name, org_type and
\* instance_name only when a non-empty value is supplied for it and leaves
\* the cached value otherwise; a second call with the same arguments changes
\* nothing more; no other field, session or pending state changes and the
\* call returns true; on an id not in the store it returns false and changes
\* nothing.
C15_UpdateOrgInfo ==
    [][\A sid \in SessionIds \cup {Forged}, org \in OrgRecords :
          LET n == org.org_name
              t == org.org_type
              i == org.instance_name
          IN
          update_org_info_call(sid, n, t, i) =>
              /\ pending_states' = pending_states
              /\ update_org_info_store(sessions', sid, n, t, i) = sessions'
              /\ IF sid \in DOMAIN sessions
                 THEN /\ ret'.val = Some(TRUE)
                      /\ DOMAIN sessions' = DOMAIN sessions
                      /\ \A k \in (DOMAIN sessions) \ {sid} :
                             sessions'[k] = sessions[k]
                      /\ Overwritten(sessions[sid].org_name, n,
                                     sessions'[sid].org_name)
                      /\ Overwritten(sessions[sid].org_type, t,
                                     sessions'[sid].org_type)
                      /\ Overwritten(sessions[sid].instance_name, i,
                                     sessions'[sid].instance_name)
                      /\ Unorganized(sessions'[sid]) = Unorganized(sessions[sid])
                 ELSE /\ ret'.val = Some(FALSE)
                      /\ sessions' = sessions
    ]_vars

\* The first of two sessions holds a name that replaced an earlier one
\* together with a type and an instance name, the second holds none.
C15_Witness ==
    /\ ret.op = "update_org_info"
    /\ ret.arg = 1
    /\ ret.val = Some(TRUE)
    /\ DOMAIN sessions = {1, 2}
    /\ sessions[1].org_name = Some("Globex")
    /\ sessions[1].org_type = Some("Developer Edition")
    /\ sessions[1].instance_name = Some("NA124")
    /\ sessions[2].org_name = None

\* C16: cleanup_expired, run on its own, removes exactly the sessions whose
\* expires_at is earlier than the current time, leaves every other session
\* and the pending states as they were, and returns the number it removed.
C16_CleanupRemovesExactlyExpired ==
    [][ret'.op = "cleanup_expired" =>
          /\ DOMAIN sessions' =
                 {k \in DOMAIN sessions : ~(sessions[k].expires_at < now)}
          /\ \A k \in DOMAIN sessions' : sessions'[k] = sessions[k]
          /\ pending_states' = pending_states
          /\ now' = now
          /\ ret'.val = Some(Cardinality((DOMAIN sessions) \ (DOMAIN sessions')))
    ]_vars

\* One session was removed and one, expiring at this very instant, was kept,
\* while an OAuth state is pending.
C16_Witness ==
    /\ ret.op = "cleanup_expired"
    /\ ret.val = Some(1)
    /\ removed = {1}
    /\ DOMAIN sessions = {2}
    /\ sessions[2].expires_at = now
    /\ pending_states # {}

\* C22: a refresh request for a valid session without a refresh token is
\* answered with 401, sends nothing to the vendor, and leaves the session
\* store as it was.
C22_NoRefreshTokenIs401 ==
    [][\A sid \in SessionIds :
          (/\ refresh_in(Some(sid))
           /\ sid \in DOMAIN sessions
           /\ ~ is_expired(sessions[sid], now)
           /\ sessions[sid].refresh_token \in {None, Some("")})
          => /\ rf'.pc = "done"
             /\ rf'.status = 401
             /\ rf'.vendor = << >>
             /\ sessions' = sessions
    ]_vars

\* The request of the session without a refresh token was answered with 401
\* and the session is still there.
C22_Witness ==
    /\ rf.pc = "done"
    /\ rf.cookie = Some(2)
    /\ rf.status = 401
    /\ rf.detail = "No refresh token available. Please log in again."
    /\ 2 \in DOMAIN sessions
    /\ ~ is_expired(sessions[2], now)
    /\ sessions[2].refresh_token = None

\* The vendor rejected the refresh token as invalid or expired.
Rejected(request) == request.answer = "400"

\* C23: the refresh flow deletes the session exactly when the vendor rejects
\* the stored refresh token: after a rejection the request fails with 401
\* and get_session for the id is absent, nothing else the vendor answers
\* removes the session, and a successful refresh keeps the session under
\* its id with the new access token.
C23_DeletedOnlyOnRejection ==
    [][(rf.pc = "await" /\ rf'.pc = "done") =>
          LET sid == rf.cookie[1]
          IN  /\ Rejected(rf') =>
                     /\ rf'.status = 401
                     /\ get_session_ret(sessions', sid, now') = None
              /\ (sid \in DOMAIN sessions /\ sid \notin DOMAIN sessions')
                     => Rejected(rf')
              /\ (rf'.status = 200 /\ sid \in DOMAIN sessions) =>
                     /\ sid \in DOMAIN sessions'
                     /\ sessions'[sid].access_token = "a3"
                     /\ sessions'[sid].session_id = sessions[sid].session_id
    ]_vars

\* C36: a refresh request answers "Token refreshed successfully" only when
\* the new access token is in the session of its cookie, and it creates no
\* session where there was none.
C36_SuccessMeansStored ==
    [][(rf.pc = "await" /\ rf'.pc = "done") =>
          LET sid == rf.cookie[1]
          IN  /\ rf'.detail = "Token refreshed successfully" =>
                     /\ sid \in DOMAIN sessions'
                     /\ sessions'[sid].access_token = "a3"
              /\ sid \notin DOMAIN sessions => sid \notin DOMAIN sessions'
    ]_vars

\* C26: the single-object describe answers 401 without a vendor call when
\* the session is missing or expired, 404 for a vendor error of the
\* not-found or invalid-type kind, 502 "Failed to describe" for every other
\* vendor error, and 502 "Unexpected error" for any other exception.
C26_ErrorKindsDoNotLeak ==
    ret.op = "describe_object" =>
        LET request == ret.arg
            response == ret.val[1]
        IN  IF request.session = None
            THEN response.status = 401 /\ response.vendor = << >>
            ELSE IF request.outcome.kind = "SalesforceError"
            THEN IF request.outcome.code \in NotFoundCodes
                 THEN response.status = 404
                 ELSE /\ response.status = 502
                      /\ response.detail = "Failed to describe"
            ELSE IF request.outcome.kind = "Exception"
            THEN /\ response.status = 502
                 /\ response.detail = "Unexpected error describing"
            ELSE response.status = 200

\* The session ids that were handed out and are no longer in the store: every
\* id is drawn afresh (secrets.token_urlsafe), so these are the removed ones.
Tombstones == (1 .. next_sid) \ DOMAIN sessions

\* C12: once a session id has been removed from the store (by the expiry
\* detection of get_session, by delete_session or by cleanup_expired), no
\* later operation brings it back, every later get_session for it returns
\* absent and every later delete_session for it returns false.
C12_RemovedStaysRemoved ==
    [][\A sid \in Tombstones :
          /\ sid \notin DOMAIN sessions'
          /\ (ret'.op \in {"get_session", "get_current_session"}
                /\ ret'.arg = sid) => ret'.val = None
          /\ (ret'.op = "delete_session" /\ ret'.arg = sid)
                => ret'.val = Some(FALSE)
    ]_vars

\* A delete_session for an id that an earlier operation removed, older than
\* the newest id handed out, has returned false.
C12_Witness ==
    /\ ret.op = "delete_session"
    /\ ret.arg \in Tombstones
    /\ ret.arg < next_sid
    /\ ret.val = Some(FALSE)
    /\ removed = {}

-----------------------------------------------------------------------------
(* SalesforceService.describe_objects and the route POST /objects/describe *)

MaxNames == 30       \* length of object_names in one request

batch_size == 25

Min(a, b) == IF a < b THEN a ELSE b

\* d[k] = v for a dict d.
Put(d, k, v) == [x \in (DOMAIN d) \cup {k} |-> IF x = k THEN v ELSE d[x]]

\* Positions of a request that repeat the name of an earlier position
\* (<<0, 0>>: all names differ).
Repeats == {<<0, 0>>, <<1, 2>>, <<1, 26>>}

\* The requests: object k is named k, but for a repeated name.
NameLists ==
    { [k \in 1 .. n |-> IF k = r[2] THEN r[1] ELSE k] :
        n \in 0 .. MaxNames, r \in Repeats }

\* The positions at which the vendor answers other than with a success.
Deviations == {0, 1, 2, 25, 26}

\* What the vendor does during one request.  comp_fail: the batches whose
\* composite call fails as a whole (sf.restful raises).  At position item_pos the
\* sub-response is item_out: "err" is a status other than 200, "bad" a status
\* 200 whose body _transform_describe raises on.  At position seq_pos the
\* sequential describe_object ends as seq_out: "sferr" raises SalesforceError,
\* "exc" another exception.  Everything else succeeds ("ok").
Vendors ==
    [comp_fail : SUBSET {1, 2},
     item_pos : Deviations, item_out : {"err", "bad"},
     seq_pos : Deviations, seq_out : {"sferr", "exc"}]

ItemOut(v, k) == IF k = v.item_pos THEN v.item_out ELSE "ok"

SeqOut(v, k) == IF k = v.seq_pos THEN v.seq_out ELSE "ok"

\* One entry of the log: a composite call for positions lo .. lo + size - 1, the
\* sub-response ("item") for position lo, or a describe_object call ("describe")
\* for position lo, with the object name and the outcome.
Event(ev, name, lo, size, out) ==
    [ev |-> ev, name |-> name, lo |-> lo, size |-> size, out |-> out]

\* results = [], errors = {} and no exception.
EmptyAcc == [results |-> << >>, errors |-> << >>, log |-> << >>,
             raised |-> FALSE, exc |-> ""]

\* The loop over compositeResponse, from position k to hi of the request: a
\* success is transformed and appended, a failure recorded under its
\* referenceId; an exception leaves the loop (raised).
RECURSIVE process_composite(_, _, _, _, _)
process_composite(acc, names, v, k, hi) ==
    IF k > hi THEN acc
    ELSE LET out == ItemOut(v, k)
             logged == Append(acc.log, Event("item", names[k], k, 0, out))
         IN  CASE out = "ok" ->
                    process_composite(
                        [acc EXCEPT !.results = Append(@, names[k]), !.log = logged],
                        names, v, k + 1, hi)
               [] out = "err" ->
                    process_composite(
                        [acc EXCEPT !.errors = Put(@, names[k], "item"), !.log = logged],
                        names, v, k + 1, hi)
               [] OTHER -> [acc EXCEPT !.log = logged, !.raised = TRUE]

\* A mutant: the fallback loop without its try/except.
fallback_item_uncaught(acc, name, out) ==
    CASE out = "ok" -> [acc EXCEPT !.results = Append(@, name)]
      [] OTHER -> [acc EXCEPT !.exc = out]

\* One pass of the fallback loop: describe_object(name) ended as out.
fallback_item(acc, name, out) ==
    CASE out = "ok" -> [acc EXCEPT !.results = Append(@, name)]
      [] out = "sferr" -> [acc EXCEPT !.errors = Put(@, name, "sferr")]
      [] OTHER -> [acc EXCEPT !.errors = Put(@, name, "unexpected")]

\* The fallback: describe_object for every name of the batch, in order.
RECURSIVE fallback(_, _, _, _, _)
fallback(acc, names, v, k, hi) ==
    IF k > hi \/ acc.exc # "" THEN acc
    ELSE fallback(
            fallback_item(
                [acc EXCEPT !.log =
                    Append(@, Event("describe", names[k], k, 0, SeqOut(v, k)))],
                names[k], SeqOut(v, k)),
            names, v, k + 1, hi)

\* A mutant: the slice object_names[i : i + batch_size + 1].
batch_end_overlap(i, n) == Min(i + batch_size + 1, n)

\* The last position of the batch object_names[i : i + batch_size].
batch_end(i, n) == Min(i + batch_size, n)

\* Two sub-requests of positions lo .. hi carry the same referenceId.
RepeatedReferenceId(names, lo, hi) ==
    \E j, k \in lo .. hi : j # k /\ names[j] = names[k]

\* A mutant: the sequential describes follow every composite call.
describe_batch_and_fallback(acc, names, v, i) ==
    LET lo == i + 1
        hi == batch_end(i, Len(names))
        failed == \/ ((i \div batch_size) + 1) \in v.comp_fail
                  \/ RepeatedReferenceId(names, lo, hi)
        issued == [acc EXCEPT !.log =
                     Append(@, Event("composite", 0, lo, hi - lo + 1,
                                     IF failed THEN "fail" ELSE "ok"))]
    IN  IF failed
        THEN fallback(issued, names, v, lo, hi)
        ELSE fallback([process_composite(issued, names, v, lo, hi)
                          EXCEPT !.raised = FALSE], names, v, lo, hi)

\* One pass of the loop over the batches: the composite call for the batch at
\* offset i, the loop over its response and, on any exception, the fallback.
\* The vendor rejects as a whole a composite request whose referenceIds are not
\* unique; otherwise it answers every sub-request, in order.
describe_batch(acc, names, v, i) ==
    LET lo == i + 1
        hi == batch_end(i, Len(names))
        failed == \/ ((i \div batch_size) + 1) \in v.comp_fail
                  \/ RepeatedReferenceId(names, lo, hi)
        issued == [acc EXCEPT !.log =
                     Append(@, Event("composite", 0, lo, hi - lo + 1,
                                     IF failed THEN "fail" ELSE "ok"))]
    IN  IF failed
        THEN fallback(issued, names, v, lo, hi)
        ELSE LET p == process_composite(issued, names, v, lo, hi)
             IN  IF p.raised
                 THEN fallback([p EXCEPT !.raised = FALSE], names, v, lo, hi)
                 ELSE p

RECURSIVE describe_loop(_, _, _, _)
describe_loop(acc, names, v, i) ==
    IF i >= Len(names) \/ acc.exc # "" THEN acc
    ELSE describe_loop(describe_batch(acc, names, v, i), names, v, i + batch_size)

\* SalesforceService.describe_objects(names) against vendor behaviour v.
describe_objects(names, v) ==
    IF names = << >> THEN EmptyAcc ELSE describe_loop(EmptyAcc, names, v, 0)

\* The response of the route: 200 with the describes and the errors (None when
\* there are none), or 502 when describe_objects raised.
route_response(r) ==
    IF r.exc = ""
    THEN [status |-> 200, objects |-> r.results,
          errors |-> IF r.errors = << >> THEN None ELSE Some(r.errors)]
    ELSE [status |-> 502, objects |-> << >>, errors |-> None]

DescribeInit ==
    /\ SessionInit
    /\ CacheIdle
    /\ ThreadsIdle
    /\ CallbackIdle
    /\ EntitiesIdle
    /\ RefreshIdle
    /\ PureIdle
    /\ d_names \in NameLists
    /\ d_pc = "idle"
    /\ d_results = << >>
    /\ d_errors = << >>
    /\ d_log = << >>
    /\ d_resp = [status |-> 0, objects |-> << >>, errors |-> None]

\* POST /objects/describe with object_names = d_names.
describe_objects_route ==
    /\ d_pc = "idle"
    /\ \E v \in Vendors :
          LET r == describe_objects(d_names, v)
          IN  /\ d_results' = r.results
              /\ d_errors' = r.errors
              /\ d_log' = r.log
              /\ d_resp' = route_response(r)
    /\ d_pc' = "done"
    /\ UNCHANGED d_names
    /\ UNCHANGED non_describe_vars

NextDescribe == describe_objects_route

SpecDescribe == DescribeInit /\ [][NextDescribe]_vars

-----------------------------------------------------------------------------
(* Properties of describe_objects *)

InputNames == {d_names[k] : k \in 1 .. Len(d_names)}

InResults(x) == \E i \in 1 .. Len(d_results) : d_results[i] = x

InErrors(x) == x \in DOMAIN d_errors

LogIndex == 1 .. Len(d_log)

\* C3: when describe_objects returns, every input name is in exactly one of
\* the results list and the errors map, never both and never neither, whatever
\* the vendor did.
C3_ExactlyOneOfResultsOrErrors ==
    d_pc = "done" =>
        \A x \in InputNames : InResults(x) # InErrors(x)

\* C4: if the composite call of a batch fails as a whole, describe_object is
\* called once for every position of that batch, in order, and on return every
\* name of the batch is in exactly one of results and errors.
C4_FallbackCoversBatch ==
    d_pc = "done" =>
        \A i \in LogIndex :
            (d_log[i].ev = "composite" /\ d_log[i].out = "fail") =>
                \A k \in 0 .. d_log[i].size - 1 :
                    /\ i + 1 + k \in LogIndex
                    /\ d_log[i + 1 + k].ev = "describe"
                    /\ d_log[i + 1 + k].lo = d_log[i].lo + k
                    /\ d_log[i + 1 + k].name = d_names[d_log[i].lo + k]
                    /\ InResults(d_names[d_log[i].lo + k])
                         # InErrors(d_names[d_log[i].lo + k])

\* The log entries that are successful describes (a sub-response or a sequential
\* describe_object), and those that are composite calls.
OkEvents == {i \in LogIndex : d_log[i].ev \in {"item", "describe"} /\ d_log[i].out = "ok"}

CompositeCalls == {i \in LogIndex : d_log[i].ev = "composite"}

\* C5: describe_objects never fails as a whole: the route answers 200 with the
\* results and the errors; every failed sub-request and every failed fallback
\* describe is under its name in the errors map, and every successful describe,
\* of whatever batch, is in the results.
C5_NeverFailsAsAWhole ==
    d_pc = "done" =>
        /\ d_resp.status = 200
        /\ d_resp.objects = d_results
        /\ d_errors # << >> => d_resp.errors = Some(d_errors)
        /\ Len(d_results) = Cardinality(OkEvents)
        /\ \A i \in LogIndex :
              /\ i \in OkEvents => InResults(d_log[i].name)
              /\ (d_log[i].ev = "item" /\ d_log[i].out = "err")
                    => InErrors(d_log[i].name)
              /\ (d_log[i].ev = "describe" /\ d_log[i].out \in {"sferr", "exc"})
                    => InErrors(d_log[i].name)
        /\ Len(d_names) > 0 =>
              \E i \in CompositeCalls :
                  d_log[i].lo + d_log[i].size - 1 = Len(d_names)

\* C5 witness: one composite call failed as a whole, one fallback describe of
\* its batch failed, a sub-request of the other batch failed, and the describes
\* that succeeded are returned with status 200.
C5_Witness ==
    /\ d_pc = "done"
    /\ d_resp.status = 200
    /\ \E i, j, k \in LogIndex :
          /\ d_log[i].ev = "composite" /\ d_log[i].out = "fail"
          /\ d_log[j].ev = "describe" /\ d_log[j].out = "sferr"
          /\ d_log[k].ev = "item" /\ d_log[k].out = "err"
    /\ Len(d_results) >= 2

\* C6: N >= 1 names give exactly ceil(N / 25) composite calls, the k-th one
\* carrying the positions 25 (k - 1) + 1 .. min(25 k, N), so at most 25
\* sub-requests each, consecutive and covering the input; an empty input gives
\* no vendor call and empty results and errors.
C6_BatchesOfAtMost25 ==
    d_pc = "done" =>
        LET N == Len(d_names)
            Rank(i) == Cardinality({j \in CompositeCalls : j <= i})
        IN  /\ N = 0 => d_log = << >> /\ d_results = << >> /\ d_errors = << >>
            /\ Cardinality(CompositeCalls) = (N + 24) \div 25
            /\ \A i \in CompositeCalls :
                  /\ d_log[i].lo = 25 * (Rank(i) - 1) + 1
                  /\ d_log[i].size = Min(25, N - d_log[i].lo + 1)
                  /\ d_log[i].size >= 1 /\ d_log[i].size <= 25

\* The sequential describes of the positions of a composite call.
Describes_of(i) ==
    {j \in LogIndex : /\ d_log[j].ev = "describe"
                      /\ d_log[j].lo >= d_log[i].lo
                      /\ d_log[j].lo < d_log[i].lo + d_log[i].size}

\* The composite call was answered and the loop over its response ended
\* without an exception.
Processed(i) ==
    /\ d_log[i].out = "ok"
    /\ ~ \E j \in LogIndex : /\ d_log[j].ev = "item"
                             /\ d_log[j].out = "bad"
                             /\ d_log[j].lo >= d_log[i].lo
                             /\ d_log[j].lo < d_log[i].lo + d_log[i].size

\* C40: describe_objects returns after at most one composite call per batch
\* and at most one sequential describe per position of the input, so after
\* at most ceil(N / 25) + N vendor calls; and no sequential describe follows
\* a composite call whose response was processed without a failure.
C40_BoundedVendorCalls ==
    d_pc = "done" =>
        LET N == Len(d_names)
            Sequential == {j \in LogIndex : d_log[j].ev = "describe"}
        IN  /\ \A i, j \in CompositeCalls :
                   d_log[i].lo = d_log[j].lo => i = j
            /\ Cardinality(CompositeCalls) <= (N + 24) \div 25
            /\ \A i, j \in Sequential : d_log[i].lo = d_log[j].lo => i = j
            /\ \A j \in Sequential : d_log[j].lo \in 1 .. N
            /\ Cardinality(CompositeCalls) + Cardinality(Sequential)
                   <= ((N + 24) \div 25) + N
            /\ \A i \in CompositeCalls : Processed(i) => Describes_of(i) = {}

\* Of two batches the first was described name by name after its composite
\* call failed, and the second by its composite call alone.
C40_Witness ==
    /\ d_pc = "done"
    /\ Len(d_names) = 30
    /\ \E i, j \in CompositeCalls :
          /\ d_log[i].out = "fail"
          /\ Cardinality(Describes_of(i)) = 25
          /\ Processed(j)
          /\ Describes_of(j) = {}

\* C6 witness: 30 names were sent in two composite calls, of 25 and of 5.
C6_Witness ==
    /\ d_pc = "done"
    /\ Len(d_names) = 30
    /\ Cardinality(CompositeCalls) = 2
    /\ \E i, j \in CompositeCalls :
          /\ i < j
          /\ d_log[i].lo = 1 /\ d_log[i].size = 25
          /\ d_log[j].lo = 26 /\ d_log[j].size = 5


(***************************************************************************)
(* The TTL caches.  cachetools.TTLCache keeps, per key, the value and the   *)
(* time it expires (the timer at insertion plus the ttl); "key in cache"     *)
(* and "cache[key]" each read the timer, and an entry is live while the      *)
(* timer is below its expiry.                                                *)
(***************************************************************************)
ObjectsTTL == 300

EntitiesTTL == 300

TokenTTL == 3600

\* The instants of the timer that are told apart: around the two TTLs.
CacheTimes == {0, 299, 300, 3599, 3600}

\* The instant that follows t, or t at the last one.
Later(t) ==
    IF \E x \in CacheTimes : x > t
    THEN CHOOSE x \in CacheTimes :
             x > t /\ \A y \in CacheTimes : y > t => x <= y
    ELSE t

\* The timer as an operation sees it at each of its n cache accesses: the
\* operation runs within one instant, or the next instant begins before its
\* access pos.
Clocks(t, n) ==
    { [i \in 1 .. n |-> IF i < pos THEN t ELSE to] :
        pos \in 2 .. n, to \in {t, Later(t)} }

\* key in cache
ttl_contains_forever(cache, key, t) == key \in DOMAIN cache

ttl_contains(cache, key, t) ==
    key \in DOMAIN cache /\ t < cache[key].expires

\* TTLCache.expire: drop the entries that are no longer live.
ttl_expire(cache, t) ==
    [k \in {x \in DOMAIN cache : t < cache[x].expires} |-> cache[k]]

\* cache[key] = val
ttl_setitem(cache, key, val, t, ttl) ==
    Put(ttl_expire(cache, t), key, [val |-> val, expires |-> t + ttl])

\* if key in cache: return cache[key]      (the timer is read twice)
cached_read(name, cache, key, t1, t2) ==
    LET kind == IF ~ ttl_contains(cache, key, t1) THEN "miss"
                ELSE IF ttl_contains(cache, key, t2) THEN "hit"
                ELSE "KeyError"
    IN  [cache |-> name, key |-> key,
         at |-> IF kind = "miss" THEN t1 ELSE t2, kind |-> kind,
         val |-> IF kind = "hit" THEN Some(cache[key].val) ELSE None]

Write(name, key, t, val) == [cache |-> name, key |-> key, at |-> t, val |-> val]

\* The history of insertions after an operation's cache writes.
RECURSIVE Recorded(_, _)
Recorded(ins, writes) ==
    IF writes = << >> THEN ins
    ELSE LET w == Head(writes)
         IN  Recorded([ins EXCEPT ![w.cache] = Put(@, w.key,
                                      [at |-> w.at, val |-> w.val])],
                      Tail(writes))

Written(writes) == { <<writes[i].cache, writes[i].key>> : i \in DOMAIN writes }


(***************************************************************************)
(* SalesforceService.list_objects and the object-list cache.                *)
(***************************************************************************)
DefaultApiVersion == "default"

\* A vendor request raises, or answers with a body.
Raised == [ok |-> FALSE, body |-> << >>]

Answer(body) == [ok |-> TRUE, body |-> body]

\* SalesforceService.__init__: api_version or the library's default.
SalesforceService(access_token, instance_url, api_version) ==
    [access_token |-> access_token, instance_url |-> instance_url,
     api_version |-> IF api_version = None THEN DefaultApiVersion
                     ELSE api_version[1]]

\* What the vendor answers to a global describe: an exception, or the
\* sobjects (missing: the label starts with "__MISSING").
Describes ==
    { Raised,
      Answer(<< [name |-> "Account", missing |-> FALSE],
                [name |-> "Hidden", missing |-> TRUE] >>),
      Answer(<< [name |-> "Account", missing |-> FALSE],
                [name |-> "Contact", missing |-> FALSE] >>) }

RECURSIVE basic_infos(_)
basic_infos(sobjects) ==
    IF sobjects = << >> THEN << >>
    ELSE IF Head(sobjects).missing THEN basic_infos(Tail(sobjects))
    ELSE <<Head(sobjects).name>> \o basic_infos(Tail(sobjects))

objects_cache_key(svc) == <<svc.instance_url, svc.api_version>>

list_objects_store_skipped(cache, key, objects, t) == cache

list_objects_store(cache, key, objects, t) ==
    ttl_setitem(cache, key, objects, t, ObjectsTTL)

\* list_objects on a service, with the timer read at clock[1] (key in cache),
\* clock[2] (cache[key]) and clock[3] (the store after the vendor call).
list_objects(cache, svc, use_cache, clock, describe) ==
    LET key == objects_cache_key(svc)
        read == cached_read("objects", cache, key, clock[1], clock[2])
        reads == IF use_cache THEN <<read>> ELSE << >>
        call == [call |-> "describe", token |-> svc.access_token,
                 url |-> svc.instance_url]
        objects == basic_infos(describe.body)
    IN  IF use_cache /\ read.kind = "hit"
        THEN [NoEffect(cache, clock[2]) EXCEPT !.reads = reads,
                                               !.val = read.val]
        ELSE IF use_cache /\ read.kind = "KeyError"
        THEN [NoEffect(cache, clock[2]) EXCEPT !.reads = reads,
                                               !.exc = "KeyError"]
        ELSE IF ~ describe.ok
        THEN [NoEffect(cache, clock[3]) EXCEPT !.reads = reads,
                                               !.vendor = <<call>>,
                                               !.exc = "SalesforceError"]
        ELSE [cache |-> list_objects_store(cache, key, objects, clock[3]),
              reads |-> reads,
              writes |-> <<Write("objects", key, clock[3], objects)>>,
              vendor |-> <<call>>,
              val |-> Some(objects), exc |-> "", end |-> clock[3]]

\* A call of list_objects on a service built, as GET /objects builds it, from
\* the session of one of Svcs and the api_version of the request, with the
\* timer read as one of Cs.
list_objects_within(Svcs, Versions, UseCache, Cs) ==
    \E s \in Svcs, v \in Versions, use_cache \in UseCache,
       clock \in Cs, describe \in Describes :
        LET svc == SalesforceService(s.access_token, s.instance_url, v)
            r == list_objects(objects_cache, svc, use_cache, clock, describe)
        IN  /\ objects_cache' = r.cache
            /\ timer' = r.end
            /\ c_ret' = CRet("list_objects", svc, None, use_cache, r)
            /\ inserted' = Recorded(inserted, r.writes)
            /\ lost' = lost \ Written(r.writes)
            /\ UNCHANGED <<dc_entities_cache, dc_token_cache>>
            /\ UNCHANGED non_cache_vars

list_objects_call(Svcs, Versions, UseCache) ==
    list_objects_within(Svcs, Versions, UseCache, Clocks(timer, 3))

\* The entries of a cache that expire first: the ones a full cache drops.
Oldest(cache) ==
    { k \in DOMAIN cache : \A x \in DOMAIN cache :
                               cache[k].expires <= cache[x].expires }

\* The cache is full (maxsize = 100) of entries of other orgs and one more
\* is inserted: the entry that expires first is dropped.
evict_objects ==
    \E k \in Oldest(objects_cache) :
        /\ objects_cache' = Without(objects_cache, k)
        /\ lost' = lost \cup {<<"objects", k>>}
        /\ UNCHANGED <<timer, dc_entities_cache, dc_token_cache, c_ret,
                       inserted>>
        /\ UNCHANGED non_cache_vars

\* Time passes between two operations.
Tick ==
    \E t \in CacheTimes :
        /\ t > timer
        /\ timer' = t
        /\ UNCHANGED <<objects_cache, dc_entities_cache, dc_token_cache,
                       c_ret, inserted, lost>>
        /\ UNCHANGED non_cache_vars

\* The sessions whose services use the caches: two users of one org.
\* (A URL of the cache part is the sequence of its parts.)
OrgSessions ==
    { [access_token |-> "a1", instance_url |-> <<"https://", "org1">>],
      [access_token |-> "a2", instance_url |-> <<"https://", "org1">>] }

call_list_objects == list_objects_call(OrgSessions, {None}, BOOLEAN)

NextObjects == call_list_objects \/ evict_objects \/ Tick

SpecObjects == Init /\ [][NextObjects]_vars

\* What the vendor's global describe lists for the user of an access token:
\* the objects that user may see.
Visible(access_token) ==
    IF access_token = "a1"
    THEN Answer(<< [name |-> "Account", missing |-> FALSE],
                   [name |-> "Salary__c", missing |-> FALSE] >>)
    ELSE Answer(<< [name |-> "Account", missing |-> FALSE] >>)

\* GET /objects of two users of one org: the vendor answers each with the
\* objects of the user of the token, or not at all.
list_objects_of_user ==
    \E s \in OrgSessions, use_cache \in {TRUE}, clock \in Clocks(timer, 3),
       ok \in BOOLEAN :
        LET describe == IF ok THEN Visible(s.access_token) ELSE Raised
            svc == SalesforceService(s.access_token, s.instance_url, None)
            r == list_objects(objects_cache, svc, use_cache, clock, describe)
        IN  /\ objects_cache' = r.cache
            /\ timer' = r.end
            /\ c_ret' = CRet("list_objects", svc, None, use_cache, r)
            /\ inserted' = Recorded(inserted, r.writes)
            /\ lost' = lost \ Written(r.writes)
            /\ UNCHANGED <<dc_entities_cache, dc_token_cache>>
            /\ UNCHANGED non_cache_vars

NextUsers == list_objects_of_user \/ evict_objects \/ Tick

SpecUsers == Init /\ [][NextUsers]_vars


(***************************************************************************)
(* DataCloudService: the token exchange, check_enabled and list_entities,   *)
(* with the credential cache and the entity-list cache.                     *)
(***************************************************************************)

\* url.rstrip("/")
RECURSIVE rstrip(_)
rstrip(url) ==
    IF url # << >> /\ url[Len(url)] = "/"
    THEN rstrip(SubSeq(url, 1, Len(url) - 1))
    ELSE url

\* url.startswith(("http://", "https://"))
has_scheme(url) == url # << >> /\ url[1] \in {"http://", "https://"}

\* DataCloudService.__init__
DataCloudService(access_token, instance_url) ==
    [sf_access_token |-> access_token, sf_instance_url |-> rstrip(instance_url)]

\* The Data Cloud token the vendor mints for a subject token: it carries the
\* identity of the user the subject token belongs to.
DcToken(subject_token) == <<"dc", subject_token>>

\* What the vendor answers to the token exchange: an exception (transport,
\* or a body that is not JSON), a status other than 200, or 200 with the raw
\* instance URL given here.
Exchanges ==
    { [status |-> "exc", instance_url |-> << >>],
      [status |-> "401", instance_url |-> << >>],
      [status |-> "200", instance_url |-> <<"dc1", "/">>] }

\* The instance URL of the credentials, from the raw one of the response.
dc_instance_url(raw_instance_url) ==
    LET instance_url == rstrip(raw_instance_url)
    IN  IF instance_url # << >> /\ ~ has_scheme(instance_url)
        THEN <<"https://">> \o instance_url
        ELSE instance_url

DataCloudCredentials(access_token, instance_url) ==
    [access_token |-> access_token, instance_url |-> instance_url]

exchange_cache_key(svc) == svc.sf_instance_url

\* _exchange_token, with the timer read at clock[1] (key in cache), clock[2]
\* (cache[key]) and clock[3] (the store after the exchange).  The cache
\* lookup is outside the try block.
exchange_token(cache, svc, clock, exchange) ==
    LET key == exchange_cache_key(svc)
        read == cached_read("dc_token", cache, key, clock[1], clock[2])
        call == [call |-> "exchange", token |-> svc.sf_access_token,
                 url |-> svc.sf_instance_url]
        credentials ==
            DataCloudCredentials(DcToken(svc.sf_access_token),
                                 dc_instance_url(exchange.instance_url))
    IN  IF read.kind = "hit"
        THEN [NoEffect(cache, clock[2]) EXCEPT !.reads = <<read>>,
                                               !.val = read.val]
        ELSE IF read.kind = "KeyError"
        THEN [NoEffect(cache, clock[2]) EXCEPT !.reads = <<read>>,
                                               !.exc = "KeyError"]
        ELSE IF exchange.status # "200"
        THEN [NoEffect(cache, clock[3]) EXCEPT !.reads = <<read>>,
                                               !.vendor = <<call>>]
        ELSE [cache |-> ttl_setitem(cache, key, credentials, clock[3],
                                    TokenTTL),
              reads |-> <<read>>,
              writes |-> <<Write("dc_token", key, clock[3], credentials)>>,
              vendor |-> <<call>>,
              val |-> Some(credentials), exc |-> "", end |-> clock[3]]

\* What the vendor answers to the metadata request of check_enabled.
Pings == {"exc", "200", "403"}

\* A request to the Data Cloud API with the service's credentials.
DcCall(name, credentials) ==
    [call |-> name, token |-> credentials.access_token,
     url |-> credentials.instance_url]

\* check_enabled: every exception, the KeyError of the lookup included, is
\* caught and answered with False.
\* A request together with whether the vendor answered it with a success.
Answered(call, answer) ==
    [call |-> call.call, token |-> call.token, url |-> call.url,
     ok |-> answer.ok]

\* A mutant: the metadata request is sent and its answer is not looked at.
check_enabled_unverified(cache, svc, clock, exchange, ping) ==
    LET x == exchange_token(cache, svc, clock, exchange)
    IN  IF x.exc # "" THEN [x EXCEPT !.exc = "", !.val = Some(FALSE)]
        ELSE IF x.val = None THEN [x EXCEPT !.val = Some(FALSE)]
        ELSE [x EXCEPT !.vendor = @ \o <<Answered(DcCall("metadata", x.val[1]),
                                                 [ok |-> ping = "200"])>>,
                       !.val = Some(TRUE)]

check_enabled(cache, svc, clock, exchange, ping) ==
    LET x == exchange_token(cache, svc, clock, exchange)
    IN  IF x.exc # "" THEN [x EXCEPT !.exc = "", !.val = Some(FALSE)]
        ELSE IF x.val = None THEN [x EXCEPT !.val = Some(FALSE)]
        ELSE [x EXCEPT !.vendor = @ \o <<Answered(DcCall("metadata", x.val[1]),
                                                 [ok |-> ping = "200"])>>,
                       !.val = Some(ping = "200")]

\* What the vendor answers to the three listing requests: an exception (for
\* the metadata requests also a status raise_for_status rejects), or the
\* entities; the data-graph request answers a status other than 200 like an
\* empty list.
Listing(graph, meta, dlo) == [graph |-> graph, meta |-> meta, dlo |-> dlo]

Listings ==
    { Listing(Answer(<<"A__dlm">>), Answer(<<"A__dlm", "B__dlm">>),
              Answer(<<"L__dll">>)),
      Listing(Raised, Raised, Answer(<<"L__dll">>)),
      Listing(Answer(<<"A__dlm">>), Raised, Raised) }

Entity(name, entity_type) == [name |-> name, entity_type |-> entity_type]

Names(entities) == { entities[i].name : i \in DOMAIN entities }

\* for e in listed: if e.name not in seen_names: append
RECURSIVE extend_unseen(_, _, _)
extend_unseen(entities, listed, entity_type) ==
    IF listed = << >> THEN entities
    ELSE extend_unseen(
             IF Head(listed) \in Names(entities) THEN entities
             ELSE Append(entities, Entity(Head(listed), entity_type)),
             Tail(listed), entity_type)

\* _list_dmo_entities: both requests are tried, an exception of either is
\* swallowed, and names already seen are skipped.
list_dmo_entities(graph, meta) ==
    LET from_graph == IF ~ graph.ok THEN << >>
                      ELSE extend_unseen(<< >>, graph.body, "DataModelObject")
    IN  IF ~ meta.ok THEN from_graph
        ELSE extend_unseen(from_graph, meta.body, "DataModelObject")

RECURSIVE list_dlo_entities(_)
list_dlo_entities(dlo) ==
    IF dlo = << >> THEN << >>
    ELSE <<Entity(Head(dlo), "DataLakeObject")>> \o list_dlo_entities(Tail(dlo))

EntityTypes == {None, Some("DataModelObject"), Some("DataLakeObject")}

\* entity_type or 'all': an empty filter is keyed like none.
entities_cache_key(svc, entity_type) ==
    <<svc.sf_instance_url, "dc",
      IF truthy(entity_type) THEN entity_type[1] ELSE "all">>

\* if entity_type is None or entity_type == "DataModelObject"
runs_dmo(entity_type) == entity_type \in {None, Some("DataModelObject")}

\* A mutant: the Data-Lake-Object path runs under every filter.
runs_dlo_always(entity_type) == TRUE

\* if entity_type is None or entity_type == "DataLakeObject"
runs_dlo(entity_type) == entity_type \in {None, Some("DataLakeObject")}

\* list_entities on a fresh service (one is built per request): the token
\* exchange reads the timer at clock[1..3], the entity cache at clock[4]
\* (key in cache), clock[5] (cache[key]) and clock[6] (the store).
list_entities(caches, svc, entity_type, use_cache, clock, exchange, listing) ==
    LET graph == listing.graph
        meta == listing.meta
        dlo == listing.dlo
        x == exchange_token(caches.token, svc, clock, exchange)
        key == entities_cache_key(svc, entity_type)
        read == cached_read("dc_entities", caches.entities, key, clock[4],
                            clock[5])
        reads == IF use_cache THEN x.reads \o <<read>> ELSE x.reads
        with_dmo == runs_dmo(entity_type)
        with_dlo == runs_dlo(entity_type)
        credentials == x.val[1]
        dmo_calls == IF with_dmo
                     THEN <<Answered(DcCall("graph", credentials), graph),
                            Answered(DcCall("metadata_dmo", credentials),
                                     meta)>>
                     ELSE << >>
        dlo_calls == IF with_dlo
                     THEN <<Answered(DcCall("metadata_dlo", credentials), dlo)>>
                     ELSE << >>
        entities == (IF with_dmo THEN list_dmo_entities(graph, meta)
                     ELSE << >>)
                    \o (IF with_dlo THEN list_dlo_entities(dlo.body) ELSE << >>)
        after_exchange ==
            [x EXCEPT !.cache = [token |-> x.cache,
                                 entities |-> caches.entities],
                      !.reads = reads, !.val = None]
    IN  IF x.exc # "" THEN [after_exchange EXCEPT !.reads = x.reads]
        ELSE IF x.val = None
        THEN [after_exchange EXCEPT !.reads = x.reads, !.exc = "RuntimeError"]
        ELSE IF use_cache /\ read.kind = "hit"
        THEN [after_exchange EXCEPT !.val = read.val, !.end = clock[5]]
        ELSE IF use_cache /\ read.kind = "KeyError"
        THEN [after_exchange EXCEPT !.exc = "KeyError", !.end = clock[5]]
        ELSE IF with_dlo /\ ~ dlo.ok
        THEN [after_exchange EXCEPT !.vendor = @ \o dmo_calls \o dlo_calls,
                                    !.exc = "HTTPStatusError",
                                    !.end = clock[6]]
        ELSE [after_exchange EXCEPT
                 !.cache.entities = ttl_setitem(caches.entities, key, entities,
                                                clock[6], EntitiesTTL),
                 !.writes = @ \o <<Write("dc_entities", key, clock[6],
                                         entities)>>,
                 !.vendor = @ \o dmo_calls \o dlo_calls,
                 !.val = Some(entities),
                 !.end = clock[6]]

\* A call of check_enabled on a service built, as GET /status builds it, from
\* the session of one of Svcs.
check_enabled_call(Svcs, Xs) ==
    \E s \in Svcs, clock \in Clocks(timer, 3), exchange \in Xs,
       ping \in Pings :
        LET svc == DataCloudService(s.access_token, s.instance_url)
            r == check_enabled(dc_token_cache, svc, clock, exchange, ping)
        IN  /\ dc_token_cache' = r.cache
            /\ timer' = r.end
            /\ c_ret' = CRet("check_enabled", svc, None, TRUE, r)
            /\ inserted' = Recorded(inserted, r.writes)
            /\ lost' = lost \ Written(r.writes)
            /\ UNCHANGED <<objects_cache, dc_entities_cache>>
            /\ UNCHANGED non_cache_vars

\* A call of list_entities on a service built, as GET /entities builds it,
\* from the session of one of Svcs, with the timer read as one of Cs.
list_entities_within(Svcs, Types, UseCache, Xs, Ls, Cs) ==
    \E s \in Svcs, entity_type \in Types, use_cache \in UseCache,
       clock \in Cs, exchange \in Xs, listing \in Ls :
        LET svc == DataCloudService(s.access_token, s.instance_url)
            r == list_entities([token |-> dc_token_cache,
                                entities |-> dc_entities_cache],
                               svc, entity_type, use_cache, clock, exchange,
                               listing)
        IN  /\ dc_token_cache' = r.cache.token
            /\ dc_entities_cache' = r.cache.entities
            /\ timer' = r.end
            /\ c_ret' = CRet("list_entities", svc, entity_type, use_cache, r)
            /\ inserted' = Recorded(inserted, r.writes)
            /\ lost' = lost \ Written(r.writes)
            /\ UNCHANGED objects_cache
            /\ UNCHANGED non_cache_vars

list_entities_call(Svcs, Types, UseCache, Xs, Ls) ==
    list_entities_within(Svcs, Types, UseCache, Xs, Ls, Clocks(timer, 6))

\* A mutant: only the entries whose time has passed are dropped.
clear_cache_expired ==
    /\ dc_entities_cache # << >>
    /\ dc_entities_cache' = ttl_expire(dc_entities_cache, timer)
    /\ lost' = lost \cup { <<"dc_entities", k>> :
                               k \in DOMAIN dc_entities_cache }
    /\ UNCHANGED <<timer, objects_cache, dc_token_cache, c_ret, inserted>>
    /\ UNCHANGED non_cache_vars

\* clear_cache: only the entity-list cache is cleared.
clear_cache ==
    /\ dc_entities_cache # << >>
    /\ dc_entities_cache' = << >>
    /\ lost' = lost \cup { <<"dc_entities", k>> : k \in DOMAIN dc_entities_cache }
    /\ UNCHANGED <<timer, objects_cache, dc_token_cache, c_ret, inserted>>
    /\ UNCHANGED non_cache_vars

\* A full entity-list cache drops the entry that expires first.
evict_entities ==
    \E k \in Oldest(dc_entities_cache) :
        /\ dc_entities_cache' = Without(dc_entities_cache, k)
        /\ lost' = lost \cup {<<"dc_entities", k>>}
        /\ UNCHANGED <<timer, objects_cache, dc_token_cache, c_ret, inserted>>
        /\ UNCHANGED non_cache_vars

\* A full credential cache drops the entry that expires first.
evict_token ==
    \E k \in Oldest(dc_token_cache) :
        /\ dc_token_cache' = Without(dc_token_cache, k)
        /\ lost' = lost \cup {<<"dc_token", k>>}
        /\ UNCHANGED <<timer, objects_cache, dc_entities_cache, c_ret,
                       inserted>>
        /\ UNCHANGED non_cache_vars

\* The Data Cloud operations of two users of one org.
call_check_enabled == check_enabled_call(OrgSessions, Exchanges)

call_list_entities ==
    list_entities_call(OrgSessions, {None}, {TRUE}, Exchanges, Listings)

NextDataCloud ==
    \/ call_list_entities
    \/ clear_cache
    \/ evict_entities
    \/ evict_token
    \/ Tick

SpecDataCloud == Init /\ [][NextDataCloud]_vars

\* The three caches together, used by the operations of one user.
OneSession == {[access_token |-> "a1", instance_url |-> <<"https://", "org1">>]}

Granted == {x \in Exchanges : x.status = "200"}

Listed == {l \in Listings : l.graph.ok /\ l.meta.ok /\ l.dlo.ok}

cached_list_objects == list_objects_call(OneSession, {None}, {TRUE})

cached_check_enabled == check_enabled_call(OneSession, Granted)

cached_list_entities ==
    list_entities_call(OneSession, {None}, {TRUE}, Granted, Listed)

NextCache ==
    \/ cached_list_objects
    \/ cached_check_enabled
    \/ cached_list_entities
    \/ evict_objects
    \/ evict_entities
    \/ evict_token
    \/ clear_cache
    \/ Tick

SpecCache == Init /\ [][NextCache]_vars

\* Logins and the lists of one user, while the entity-list cache is cleared
\* and time passes.
NextClear ==
    \/ create_session
    \/ cached_list_objects
    \/ cached_list_entities
    \/ clear_cache
    \/ Tick

SpecClear == Init /\ [][NextClear]_vars

\* The two lists of one user, fetched whatever the vendor answers.
fetch_objects == list_objects_call(OneSession, {None}, {TRUE})

fetch_entities ==
    list_entities_call(OneSession, {None}, {TRUE}, Exchanges, Listings)

NextFetch == fetch_objects \/ fetch_entities \/ Tick

SpecFetch == Init /\ [][NextFetch]_vars

\* The lists of two orgs under several API versions and entity-type filters,
\* fetched within one instant.
FetchSessions ==
    { [access_token |-> "a1", instance_url |-> <<"https://", "org1">>],
      [access_token |-> "a3", instance_url |-> <<"https://", "org2">>] }

ApiVersions == {None, Some("v59.0")}

\* The timer does not move during an operation with n cache accesses.
Instant(n) == { [i \in 1 .. n |-> timer] }

keyed_list_objects ==
    list_objects_within(FetchSessions, ApiVersions, {TRUE}, Instant(3))

\* The filters of GET /entities: none, one kind of entity, or the empty
\* string of "?entity_type=".
Filters == {None, Some("DataModelObject"), Some("")}

keyed_list_entities ==
    list_entities_within(FetchSessions, Filters, {TRUE}, Granted, Listed,
                         Instant(6))

NextKeys == keyed_list_objects \/ keyed_list_entities

\* GET /status of one user, whatever the vendor answers, while time passes
\* and the credential cache drops entries.
probe_enabled == check_enabled_call(OneSession, Exchanges)

NextEnabled == probe_enabled \/ evict_token \/ Tick

SpecEnabled == Init /\ [][NextEnabled]_vars

\* The raw instance URL of a 200 answer: a bare host, with a trailing slash,
\* with a scheme, and empty (the key is missing, or the URL is "" or "/").
RawInstanceUrls ==
    { <<"dc1">>, <<"dc1", "/">>, <<"https://", "dc1">>,
      <<"http://", "dc1", "/", "/">>, << >>, <<"/">> }

UrlExchanges ==
    { [status |-> "401", instance_url |-> << >>] }
    \cup { [status |-> "200", instance_url |-> url] : url \in RawInstanceUrls }

\* GET /status of one user, whatever instance URL the vendor answers.
exchange_for_status == check_enabled_call(OneSession, UrlExchanges)

NextExchange == exchange_for_status \/ evict_token \/ Tick

SpecExchange == Init /\ [][NextExchange]_vars

\* The entity list of one user under every filter, whatever the vendor
\* answers, while the credential cache drops entries.
filtered_list_entities ==
    list_entities_within(OneSession, EntityTypes \cup Filters, {TRUE},
                         Exchanges, Listings, Instant(6))

NextFilter == filtered_list_entities \/ evict_token

SpecFilter == Init /\ [][NextFilter]_vars

SpecKeys == Init /\ [][NextKeys]_vars

(***************************************************************************)
(* DataCloudService.describe_entity and describe_entities, as the routes    *)
(* GET /entities/{name}/describe and POST /entities/describe call them on   *)
(* a service built for the request.  The routes are coroutines that call    *)
(* the service without awaiting: a request runs to its end before another   *)
(* one starts, while the timer moves on.                                    *)
(***************************************************************************)
\* The longest list of names of a request.
MaxEntityNames == 2

EntityNames == {"A__dlm", "B__dlm"}

RECURSIVE ListsOf(_, _)
ListsOf(S, n) ==
    IF n = 0 THEN {<< >>}
    ELSE LET shorter == ListsOf(S, n - 1)
         IN  shorter \cup { Append(l, x) : l \in shorter, x \in S }

\* entity_names of the request body: any list, repeated names included.
EntityNameLists == ListsOf(EntityNames, MaxEntityNames)

\* What the vendor answers to the metadata request for one entity: the
\* entity, a status that raise_for_status raises on, or no answer at all.
DescribeAnswers == {"200", "404", "exc"}

DescribeCall(name, credentials) ==
    [call |-> "describe", name |-> name, token |-> credentials.access_token,
     url |-> credentials.instance_url]

\* _transform_entity_describe of the entity the vendor returns for the name.
EntityDescribe(name) == [name |-> name]

\* A mutant: an instance asks for credentials once only.
needs_exchange_once(credentials, asked) == credentials = None /\ ~ asked

\* if self._dc_credentials is None
needs_exchange(credentials, asked) == credentials = None

\* self._dc_credentials = self._exchange_token(), unless that raises.
ensured_by(credentials, x) ==
    [credentials |-> IF x.exc = "" THEN x.val ELSE credentials,
     asked |-> TRUE, x |-> x]

\* _ensure_dc_credentials: the instance's credentials afterwards, whether
\* _exchange_token was called and what it did.
ensure_dc_credentials(credentials, asked, cache, svc, clock, exchange) ==
    IF needs_exchange(credentials, asked)
    THEN ensured_by(credentials, exchange_token(cache, svc, clock, exchange))
    ELSE [credentials |-> credentials, asked |-> FALSE,
          x |-> NoEffect(cache, clock[1])]

CredentialFailure == "Failed to obtain Data Cloud credentials"

\* describe_entity(name): what it returns or raises (with str(e), or the
\* text describe_entities makes of an HTTPStatusError, as message).
described(e, name, answer) ==
    LET ensured == [credentials |-> e.credentials, asked |-> e.asked,
                    x |-> e.x, vendor |-> << >>, val |-> None, exc |-> "",
                    message |-> ""]
    IN  IF e.x.exc # ""
        THEN [ensured EXCEPT !.exc = e.x.exc, !.message = "KeyError"]
        ELSE IF e.credentials = None
        THEN [ensured EXCEPT !.exc = "RuntimeError",
                             !.message = CredentialFailure]
        ELSE LET call == DescribeCall(name, e.credentials[1])
             IN  IF answer = "exc"
                 THEN [ensured EXCEPT !.vendor = <<call>>,
                                      !.exc = "TransportError",
                                      !.message = "transport"]
                 ELSE IF answer # "200"
                 THEN [ensured EXCEPT !.vendor = <<call>>,
                                      !.exc = "HTTPStatusError",
                                      !.message = "HTTP 404: Not Found"]
                 ELSE [ensured EXCEPT !.vendor = <<call>>,
                                      !.val = Some(EntityDescribe(name))]

describe_entity(credentials, asked, cache, svc, name, clock, exchange, answer) ==
    described(ensure_dc_credentials(credentials, asked, cache, svc, clock,
                                    exchange),
              name, answer)

\* What the route answers: the value returned, or the detail of the
\* SalesforceAPIError made of the exception raised.
describe_response(op, exc, results, errors) ==
    IF exc = "RuntimeError"
    THEN [ok |-> FALSE, detail |-> "Data Cloud access error",
          entities |-> << >>, errors |-> None]
    ELSE IF exc = "HTTPStatusError"
    THEN [ok |-> FALSE, detail |-> "not found or failed to describe",
          entities |-> << >>, errors |-> None]
    ELSE IF exc # ""
    THEN [ok |-> FALSE, detail |-> "Unexpected error",
          entities |-> << >>, errors |-> None]
    ELSE [ok |-> TRUE, detail |-> "", entities |-> results,
          errors |-> IF errors = << >> THEN None ELSE Some(errors)]

\* A request arrives and get_dc_service builds its service.
describe_in(op, session, names) ==
    /\ dc.status # "running"
    /\ dc' = [NoRequest EXCEPT
                 !.op = op,
                 !.svc = DataCloudService(session.access_token,
                                          session.instance_url),
                 !.names = names,
                 !.status = IF names = << >> THEN "returned" ELSE "running"]
    /\ UNCHANGED cache_vars
    /\ UNCHANGED <<session_vars, describe_vars, thread_vars, callback_vars,
                   pure_vars, refresh_vars>>

\* POST /entities/describe: `if not entity_names: return [], {}`
describe_entities_of(Svcs) ==
    \E session \in Svcs, names \in EntityNameLists :
        describe_in("describe_entities", session, names)

\* GET /entities/{entity_name}/describe
describe_entity_of(Svcs) ==
    \E session \in Svcs, name \in EntityNames :
        describe_in("describe_entity", session, <<name>>)

describe_entities_in == describe_entities_of(OrgSessions)

describe_entity_in == describe_entity_of(OrgSessions)

\* The request after the call of describe_entity for its next name ended as
\* r says: the single describe lets the exception out, the loop of
\* describe_entities records it under the name and goes on.
after_describe(request, r, status) ==
    LET name == request.names[request.i + 1]
        caught == request.op = "describe_entities"
    IN  [request EXCEPT
            !.credentials = r.credentials,
            !.asked = r.asked,
            !.answer = IF r.x.vendor # << >> THEN status ELSE "",
            !.x = [Effect(r.x) EXCEPT !.vendor = @ \o r.vendor],
            !.i = @ + 1,
            !.calls = Append(@, name),
            !.results = IF r.exc = "" THEN Append(@, r.val[1]) ELSE @,
            !.errors = IF r.exc # "" /\ caught THEN Put(@, name, r.message)
                       ELSE @,
            !.exc = IF caught THEN "" ELSE r.exc,
            !.status = IF r.exc # "" /\ ~ caught THEN "raised"
                       ELSE IF request.i + 1 = Len(request.names)
                       THEN "returned"
                       ELSE "running"]

\* What the call leaves in the credential cache and its history.
describe_effect(request, x) ==
    /\ dc' = request
    /\ dc_token_cache' = x.cache
    /\ timer' = x.end
    /\ inserted' = Recorded(inserted, x.writes)
    /\ lost' = lost \ Written(x.writes)
    /\ UNCHANGED <<objects_cache, dc_entities_cache, c_ret>>
    /\ UNCHANGED <<session_vars, describe_vars, thread_vars, callback_vars,
                   pure_vars, refresh_vars>>

describe_done(r, status) ==
    describe_effect(after_describe(dc, r, status), r.x)

\* One call of describe_entity: the only one of the single describe, or the
\* next one of the loop of describe_entities.
describe_entity_answered(Xs) ==
    /\ dc.status = "running"
    /\ \E clock \in Clocks(timer, 3), exchange \in Xs,
          answer \in DescribeAnswers :
        describe_done(describe_entity(dc.credentials, dc.asked,
                                      dc_token_cache, dc.svc,
                                      dc.names[dc.i + 1], clock, exchange,
                                      answer),
                      exchange.status)

describe_entity_call == describe_entity_answered(Exchanges)

NextEntities ==
    \/ describe_entities_in
    \/ describe_entity_in
    \/ describe_entity_call
    \/ Tick

SpecEntities == Init /\ [][NextEntities]_vars

\* An org without Data Cloud: the vendor grants no exchange.
Denied == Exchanges \ Granted

describe_entity_denied == describe_entity_answered(Denied)

describe_entities_denied == describe_entities_of(OneSession)

describe_entity_refused == describe_entity_of(OneSession)

\* GET /entities, served between two describe requests.
list_entities_denied ==
    /\ dc.status # "running"
    /\ list_entities_call(OneSession, {None}, {TRUE}, Denied, Listed)

\* The requests of one user of such an org; the timer moves on while they
\* are served.
NextDenied ==
    \/ describe_entities_denied
    \/ describe_entity_refused
    \/ describe_entity_denied
    \/ list_entities_denied

SpecDenied == Init /\ [][NextDenied]_vars

\* The answer of the route to the request that has ended.
Response == describe_response(dc.op, dc.exc, dc.results, dc.errors)

\* The last call of describe_entity sent the token exchange to the vendor.
Exchanged(request) ==
    \E k \in DOMAIN request.x.vendor : request.x.vendor[k].call = "exchange"

\* C17: a failed token exchange is not terminal.  A call that needs
\* credentials sends the exchange exactly when its instance holds none and
\* the credential cache has no live entry for its key; in particular the
\* call after a failed exchange on the same instance sends it again; and a
\* failed exchange leaves the credential cache and the instance as they were.
C17_FailedExchangeIsRetried ==
    [][dc'.i = dc.i + 1 =>
          LET held == dc.credentials # None
              cached == ttl_contains(dc_token_cache,
                                     exchange_cache_key(dc.svc), timer)
              failed == Exchanged(dc') /\ dc'.answer # "200"
          IN  /\ Exchanged(dc') <=> (~ held /\ ~ cached)
              /\ dc.answer \in {"exc", "401"} => Exchanged(dc')
              /\ failed => /\ dc_token_cache' = dc_token_cache
                           /\ dc'.credentials = None
                           /\ inserted' = inserted
    ]_vars

\* Of two names the first failed for want of credentials and the second
\* was described, on the same instance, after a second exchange.
C17_Witness ==
    /\ dc.op = "describe_entities"
    /\ dc.status = "returned"
    /\ dc.names = <<"A__dlm", "B__dlm">>
    /\ dc.errors = [n \in {"A__dlm"} |-> CredentialFailure]
    /\ dc.results = <<EntityDescribe("B__dlm")>>
    /\ Exchanged(dc)
    /\ dc.answer = "200"

\* C18: _exchange_token never raises: when the exchange does not succeed it
\* returns no credentials and inserts nothing into the credential cache, and
\* only an exchange the vendor answered with 200 inserts.
C18_ExchangeNeverRaises ==
    dc.asked =>
        /\ dc.x.exc = ""
        /\ dc.x.writes # << >> => Exchanged(dc) /\ dc.answer = "200"
        /\ dc.x.val = None => dc.x.writes = << >>

\* The request has ended and its instance never held credentials, every
\* exchange it sent having failed.
WithoutCredentials(request) ==
    /\ request.status \in {"returned", "raised"}
    /\ request.names # << >>
    /\ request.credentials = None
    /\ request.x.exc = ""

\* list_entities sent the exchange and got no credentials.
ExchangeFailed(call) ==
    /\ call.op = "list_entities"
    /\ \E k \in DOMAIN call.vendor : call.vendor[k].call = "exchange"
    /\ \A k \in DOMAIN call.writes : call.writes[k].cache # "dc_token"

\* C19: when no Data Cloud credentials can be obtained, list_entities,
\* describe_entity and describe_entities each fail as a whole with the one
\* credential failure (RuntimeError, answered as "Data Cloud access error"),
\* never as a call that returns with errors under the names.
C19_CredentialFailureFailsTheCall ==
    /\ ExchangeFailed(c_ret) => c_ret.exc = "RuntimeError"
    /\ WithoutCredentials(dc) =>
           /\ dc.status = "raised"
           /\ dc.exc = "RuntimeError"
           /\ ~ Response.ok
           /\ Response.detail = "Data Cloud access error"

\* The names of the entities described so far.
Described(request) ==
    { request.results[k].name : k \in DOMAIN request.results }

\* C20: describe_entities(names) calls describe_entity once per input name,
\* one at a time in input order, goes on after a failure, which it records
\* under the name, and returns with every input name in exactly one of
\* results or errors.
C20_EachNameOnceInOrder ==
    dc.op = "describe_entities" =>
        /\ dc.calls = SubSeq(dc.names, 1, dc.i)
        /\ dc.status = "returned" =>
               /\ dc.calls = dc.names
               /\ \A k \in DOMAIN dc.names :
                      (dc.names[k] \in Described(dc))
                          # (dc.names[k] \in DOMAIN dc.errors)

(***************************************************************************)
(* Properties of the object-list cache.                                     *)
(***************************************************************************)

\* C7: a list_objects(use_cache=false) call always issues one vendor call and,
\* when it returns, the cache holds its result under the service's key; and
\* when a list_objects(use_cache=true) call follows another one that returned
\* for the same instance URL and API version, with no eviction of the key in
\* between and its cache read before the entry's insertion time plus the TTL,
\* the second call issues no vendor call and returns the list the first one
\* returned, so that the two together issue one vendor call when the first
\* one missed (and none when the first one was itself a hit).
C7_CacheRoundTrip ==
    [][call_list_objects =>
        LET first == c_ret
            second == c_ret'
            key == objects_cache_key(second.svc)
        IN  /\ (~ second.use_cache) =>
                /\ Len(second.vendor) = 1
                /\ second.exc = "" =>
                      /\ ttl_contains(objects_cache', key, timer')
                      /\ Some(objects_cache'[key].val) = second.val
            /\ ( /\ second.use_cache
                 /\ first.op = "list_objects"
                 /\ first.use_cache
                 /\ first.exc = ""
                 /\ objects_cache_key(first.svc) = key
                 /\ <<"objects", key>> \notin lost
                 /\ second.reads[1].at
                        < inserted["objects"][key].at + ObjectsTTL )
               => /\ second.vendor = << >>
                  /\ second.exc = ""
                  /\ second.val = first.val
                  /\ Len(first.vendor) + Len(second.vendor)
                        = IF first.reads[1].kind = "miss" THEN 1 ELSE 0
    ]_vars

\* A second user of the org is served, just before the TTL elapses, the list
\* that was stored at time 0.
C7_Witness ==
    /\ c_ret.op = "list_objects"
    /\ c_ret.use_cache
    /\ c_ret.svc.access_token = "a2"
    /\ c_ret.vendor = << >>
    /\ c_ret.reads[1].kind = "hit"
    /\ c_ret.reads[1].at = ObjectsTTL - 1
    /\ inserted["objects"][objects_cache_key(c_ret.svc)].at = 0
    /\ c_ret.val = Some(<<"Account", "Contact">>)


(***************************************************************************)
(* Properties of the three caches.                                          *)
(***************************************************************************)
TTLOf ==
    [objects |-> ObjectsTTL, dc_entities |-> EntitiesTTL, dc_token |-> TokenTTL]

\* The cache read rd, made when the history of insertions was ins and the
\* evicted or cleared keys were gone, is a hit exactly of a live entry: a hit
\* returns the value last inserted under the key, at time T, and is read
\* before T + TTL; and a read before T + TTL of a key that was not evicted or
\* cleared since is a hit.
ReadsLiveEntry(rd, ins, gone) ==
    LET known == rd.key \in DOMAIN ins[rd.cache]
        entry == ins[rd.cache][rd.key]
        ttl == TTLOf[rd.cache]
    IN  /\ rd.kind = "hit" =>
            /\ known
            /\ ~ (rd.at > entry.at + ttl)
            /\ rd.at < entry.at + ttl
            /\ rd.val = Some(entry.val)
        /\ (known /\ <<rd.cache, rd.key>> \notin gone
                  /\ rd.at < entry.at + ttl) =>
            /\ rd.kind = "hit"
            /\ rd.val = Some(entry.val)

\* C8: in each of the three caches (TTL 300, 300 and 3600 seconds) an entry
\* inserted at time T is never returned as a hit by a read later than
\* T + TTL, and is returned as a hit by a read before T + TTL unless it was
\* evicted or cleared in between.
C8_HitExactlyWithinTTL ==
    [][(cached_list_objects \/ cached_check_enabled \/ cached_list_entities)
        => \A i \in DOMAIN c_ret'.reads :
               ReadsLiveEntry(c_ret'.reads[i], inserted, lost)
    ]_vars

\* One list_entities call, a second before the credentials inserted at time 0
\* expire: the credentials are a hit, the entity list of time 0 is a miss and
\* is fetched again.
C8_Witness ==
    /\ c_ret.op = "list_entities"
    /\ Len(c_ret.reads) = 2
    /\ c_ret.reads[1].cache = "dc_token"
    /\ c_ret.reads[1].kind = "hit"
    /\ c_ret.reads[1].at = TokenTTL - 1
    /\ inserted["dc_token"][c_ret.reads[1].key].at = 0
    /\ c_ret.reads[2].cache = "dc_entities"
    /\ c_ret.reads[2].kind = "miss"
    /\ Len(c_ret.writes) = 1

(***************************************************************************)
(* Properties of the Data Cloud credentials.                                *)
(***************************************************************************)
DataCloudCalls == {"metadata", "graph", "metadata_dmo", "metadata_dlo"}

\* C9: the credentials a DataCloudService sends to the Data Cloud API are the
\* ones the vendor minted for the service's own access token, never the ones
\* minted for the access token of another session.
C9_OwnCredentialsOnly ==
    c_ret.op \in {"list_entities", "check_enabled"} =>
        \A i \in DOMAIN c_ret.vendor :
            c_ret.vendor[i].call \in DataCloudCalls =>
                c_ret.vendor[i].token = DcToken(c_ret.svc.sf_access_token)


\* The key components of the request of a cache-backed operation.
Components(call) ==
    IF call.op = "list_objects"
    THEN <<call.svc.instance_url, call.svc.api_version>>
    ELSE <<call.svc.sf_instance_url, "dc",
           IF call.arg = None THEN "all" ELSE call.arg[1]>>

ListCache(call) ==
    IF call.op = "list_objects" THEN "objects" ELSE "dc_entities"

\* C27: a list served from the cache by list_objects or list_entities is the
\* list stored under the instance URL and API version, or the instance URL
\* and entity-type filter ("all" for none), of the request it is served to,
\* and a list is stored under the components of the request that fetched it.
C27_ServedUnderItsOwnKey ==
    c_ret.op \in {"list_objects", "list_entities"} =>
        /\ \A i \in DOMAIN c_ret.reads :
               (c_ret.reads[i].cache = ListCache(c_ret)
                    /\ c_ret.reads[i].kind = "hit") =>
                   /\ c_ret.reads[i].key = Components(c_ret)
                   /\ Components(c_ret) \in DOMAIN inserted[ListCache(c_ret)]
                   /\ c_ret.val =
                          Some(inserted[ListCache(c_ret)][Components(c_ret)].val)
        /\ \A i \in DOMAIN c_ret.writes :
               c_ret.writes[i].cache = ListCache(c_ret) =>
                   /\ c_ret.writes[i].key = Components(c_ret)
                   /\ c_ret.val = Some(c_ret.writes[i].val)

\* The listing requests an operation sent to the vendor.
Fetched(call) ==
    { call.vendor[i].call : i \in DOMAIN call.vendor } \ {"exchange"}

\* The operation looked its key up in the entity-list cache and missed.
Missed(call) ==
    \E i \in DOMAIN call.reads :
        call.reads[i].cache = "dc_entities" /\ call.reads[i].kind = "miss"

\* C28: list_entities with the filter DataModelObject never issues the DLO
\* request, with DataLakeObject neither DMO request, and with no filter a
\* fetch issues the two DMO requests and the DLO request; a credential
\* failure raises before any listing request and any lookup of the
\* entity-list cache.
C28_FilterDecidesThePaths ==
    c_ret.op = "list_entities" =>
        /\ c_ret.arg = Some("DataModelObject") =>
               /\ "metadata_dlo" \notin Fetched(c_ret)
               /\ Missed(c_ret) => Fetched(c_ret) = {"graph", "metadata_dmo"}
        /\ c_ret.arg = Some("DataLakeObject") =>
               /\ Fetched(c_ret) \cap {"graph", "metadata_dmo"} = {}
               /\ Missed(c_ret) => Fetched(c_ret) = {"metadata_dlo"}
        /\ (c_ret.arg = None /\ Missed(c_ret)) =>
               Fetched(c_ret) = {"graph", "metadata_dmo", "metadata_dlo"}
        /\ c_ret.exc = "RuntimeError" =>
               /\ Fetched(c_ret) = {}
               /\ \A i \in DOMAIN c_ret.reads :
                      c_ret.reads[i].cache # "dc_entities"
               /\ c_ret.writes = << >>

\* The credentials were dropped from their cache and the exchange is
\* refused while the list of the filter DataModelObject is cached: the call
\* raises without looking the list up.
C28_Witness ==
    /\ c_ret.op = "list_entities"
    /\ c_ret.arg = Some("DataModelObject")
    /\ c_ret.exc = "RuntimeError"
    /\ entities_cache_key(c_ret.svc, c_ret.arg) \in DOMAIN dc_entities_cache
    /\ entities_cache_key(c_ret.svc, Some("DataLakeObject"))
           \in DOMAIN dc_entities_cache
    /\ entities_cache_key(c_ret.svc, None) \in DOMAIN dc_entities_cache

\* The operation got credentials: from the credential cache, or from an
\* exchange it stored.
GotCredentials(call) ==
    \/ \E i \in DOMAIN call.reads :
           call.reads[i].cache = "dc_token" /\ call.reads[i].kind = "hit"
    \/ \E i \in DOMAIN call.writes : call.writes[i].cache = "dc_token"

\* The metadata request of the operation was answered with a success.
Verified(call) ==
    \E i \in DOMAIN call.vendor :
        call.vendor[i].call = "metadata" /\ call.vendor[i].ok

\* C31: check_enabled never raises, and returns true exactly when the token
\* exchange yielded credentials and the metadata request that follows was
\* answered with a success.
C31_EnabledIffBothStepsSucceed ==
    c_ret.op = "check_enabled" =>
        /\ c_ret.exc = ""
        /\ c_ret.val \in {Some(TRUE), Some(FALSE)}
        /\ c_ret.val = Some(TRUE) <=> (GotCredentials(c_ret) /\ Verified(c_ret))

\* The credentials expired between the two reads of the lookup: the
\* KeyError is swallowed and the answer is false.
C31_Witness ==
    /\ c_ret.op = "check_enabled"
    /\ \E i \in DOMAIN c_ret.reads : c_ret.reads[i].kind = "KeyError"
    /\ c_ret.val = Some(FALSE)
    /\ c_ret.exc = ""

\* C32: clear_cache empties the entity-list cache whatever the age of its
\* entries and leaves the credential cache, the object-list cache and the
\* session store as they are; a list_entities call that finds the cache
\* empty is not served from it and, unless it raises, fetches from the vendor.
C32_ClearEmptiesOnlyTheEntityCache ==
    [][/\ clear_cache =>
              /\ dc_entities_cache' = << >>
              /\ UNCHANGED <<dc_token_cache, objects_cache, sessions,
                             pending_states>>
       /\ (dc_entities_cache = << >> /\ c_ret' # c_ret
               /\ c_ret'.op = "list_entities") =>
              /\ \A i \in DOMAIN c_ret'.reads :
                     c_ret'.reads[i].cache = "dc_entities" =>
                         c_ret'.reads[i].kind = "miss"
              /\ c_ret'.exc = "" =>
                     Fetched(c_ret') = {"graph", "metadata_dmo", "metadata_dlo"}
      ]_vars

\* An entity list that was still live has been cleared, the credentials,
\* the object list and a session are still there, and the list was fetched
\* again from the vendor.
C32_Witness ==
    /\ c_ret.op = "list_entities"
    /\ Missed(c_ret)
    /\ \E k \in DOMAIN inserted["dc_entities"] :
           /\ <<"dc_entities", k>> \in lost
           /\ timer < inserted["dc_entities"][k].at + EntitiesTTL
    /\ dc_token_cache # << >>
    /\ objects_cache # << >>
    /\ sessions # << >>

\* C34: the credentials a token exchange stores in the credential cache and
\* returns have an instance URL that begins with http:// or https://.
C34_CachedCredentialsHaveAScheme ==
    /\ \A key \in DOMAIN dc_token_cache :
           has_scheme(dc_token_cache[key].val.instance_url)
    /\ \A i \in DOMAIN c_ret.writes :
           c_ret.writes[i].cache = "dc_token" =>
               has_scheme(c_ret.writes[i].val.instance_url)

\* C37: the list that list_objects returns is the one the vendor answers to
\* the access token of the service it was called on.
C37_OwnTokenDecidesTheList ==
    (c_ret.op = "list_objects" /\ c_ret.exc = "" /\ c_ret.val # None) =>
        c_ret.val[1] = basic_infos(Visible(c_ret.svc.access_token).body)

\* A vendor call of the last operation failed: the global describe raised,
\* or a request of list_entities (the token exchange, a listing request) was
\* answered with an exception or a status that is not a success.
FetchFailed(call) ==
    \/ call.op = "list_objects" /\ call.exc = "SalesforceError"
    \/ /\ call.op = "list_entities"
       /\ \E i \in DOMAIN call.vendor :
              \/ call.vendor[i].call = "exchange" /\ call.exc = "RuntimeError"
              \/ /\ call.vendor[i].call
                       \in {"graph", "metadata_dmo", "metadata_dlo"}
                 /\ ~ call.vendor[i].ok

\* C25: a list_objects or list_entities call one of whose vendor calls
\* failed writes nothing to its cache.
C25_FailedFetchWritesNothing ==
    FetchFailed(c_ret) =>
        \A i \in DOMAIN c_ret.writes :
            c_ret.writes[i].cache \notin {"objects", "dc_entities"}


(***************************************************************************)
(* The session store used by several threads at once.  The store has no     *)
(* lock; a thread can be preempted between any two accesses of the dict,    *)
(* so each action below is one access of self._sessions.                    *)
(***************************************************************************)

\* Two sessions were created, at times 0 and 1, and the clock has reached the
\* instant at which the first has expired and the second has not.
ThreadsInit ==
    /\ sessions = [sid \in 1 .. 2 |->
                     NewSession(sid, CHOOSE l \in Logins : l.user_id = "u1",
                                sid - 1)]
    /\ pending_states = {}
    /\ now = SessionTTL + 1
    /\ next_sid = 2
    /\ next_state = 0
    /\ ret = Ret("init", 0, None, "")
    /\ removed = {}
    /\ true_returns = [s \in OAuthStates |-> 0]
    /\ called = {}
    /\ DescribeIdle
    /\ CacheIdle
    /\ ThreadsIdle
    /\ CallbackIdle
    /\ EntitiesIdle
    /\ RefreshIdle
    /\ PureIdle

\* The session ids the threads ask for: the ones of the two sessions.
KnownIds == 1 .. 2

Returned(t, val) == [thr EXCEPT ![t].pc = "done", ![t].val = val]

Raises(t, exc) == [thr EXCEPT ![t].pc = "done", ![t].exc = exc]

\* del self._sessions[sid] took effect, in operation by.
Deleted(sid, by) ==
    Put(removals, sid,
        (IF sid \in DOMAIN removals THEN removals[sid] ELSE << >>)
        \o << [by |-> by, expired |-> is_expired(sessions[sid], now)] >>)

RECURSIVE Counted(_, _)
Counted(cnt, expired) ==
    IF expired = << >> THEN cnt
    ELSE LET sid == Head(expired)
         IN  Counted(Put(cnt, sid,
                         (IF sid \in DOMAIN cnt THEN cnt[sid] ELSE 0) + 1),
                     Tail(expired))

StoreUntouched ==
    UNCHANGED <<sessions, pending_states, now, next_sid, next_state, ret,
                removed, true_returns, called>>

\* create_session: one insertion.
thread_create_session(t) ==
    /\ thr[t].pc = "idle"
    /\ next_sid < MaxSessions + 1
    /\ next_sid' = next_sid + 1
    /\ sessions' = Put(sessions, next_sid + 1,
                       NewSession(next_sid + 1,
                                  CHOOSE l \in Logins : l.user_id = "u2", now))
    /\ thr' = [Returned(t, Some(next_sid + 1)) EXCEPT ![t].op = "create_session"]
    /\ UNCHANGED <<pending_states, now, next_state, ret, removed,
                   true_returns, called, removals, counted>>
    /\ UNCHANGED <<describe_vars, cache_vars, callback_vars, entity_vars, pure_vars, refresh_vars>>

\* cleanup_expired: now = datetime.now(), and the iteration over
\* self._sessions.items() begins; the iterator remembers the size of the dict.
cleanup_begin(t) ==
    /\ thr[t].pc = "idle"
    /\ thr' = [thr EXCEPT ![t].op = "cleanup_expired", ![t].pc = "c_next",
                          ![t].now = now,
                          ![t].used = Cardinality(DOMAIN sessions),
                          ![t].it = 0]
    /\ StoreUntouched
    /\ UNCHANGED <<removals, counted>>
    /\ UNCHANGED <<describe_vars, cache_vars, callback_vars, entity_vars, pure_vars, refresh_vars>>

\* One step of the iteration: RuntimeError when the size of the dict has
\* changed, otherwise the next entry in insertion order, collected when it
\* has expired; after the last entry the deletions begin.
cleanup_next(t) ==
    LET rest == {sid \in DOMAIN sessions : sid > thr[t].it}
        sid == CHOOSE x \in rest : \A y \in rest : x <= y
    IN  /\ thr[t].pc = "c_next"
        /\ thr' = IF Cardinality(DOMAIN sessions) # thr[t].used
                  THEN Raises(t, "RuntimeError")
                  ELSE IF rest = {}
                  THEN [thr EXCEPT ![t].pc = "c_del"]
                  ELSE [thr EXCEPT
                          ![t].it = sid,
                          ![t].expired =
                              IF is_expired(sessions[sid], thr[t].now)
                              THEN Append(@, sid) ELSE @]
        /\ StoreUntouched
        /\ UNCHANGED <<removals, counted>>
        /\ UNCHANGED <<describe_vars, cache_vars, callback_vars, entity_vars, pure_vars, refresh_vars>>

\* for sid in expired: del self._sessions[sid]
cleanup_del(t) ==
    LET sid == thr[t].expired[thr[t].k]
    IN  /\ thr[t].pc = "c_del"
        /\ thr[t].k <= Len(thr[t].expired)
        /\ IF sid \in DOMAIN sessions
           THEN /\ sessions' = Without(sessions, sid)
                /\ removals' = Deleted(sid, "cleanup_expired")
                /\ thr' = [thr EXCEPT ![t].k = @ + 1]
           ELSE /\ thr' = Raises(t, "KeyError")
                /\ UNCHANGED <<sessions, removals>>
        /\ UNCHANGED <<pending_states, now, next_sid, next_state, ret, removed,
                       true_returns, called, counted>>
        /\ UNCHANGED <<describe_vars, cache_vars, callback_vars, entity_vars, pure_vars, refresh_vars>>

\* return len(expired)
cleanup_return(t) ==
    /\ thr[t].pc = "c_del"
    /\ thr[t].k > Len(thr[t].expired)
    /\ thr' = Returned(t, Some(Len(thr[t].expired)))
    /\ counted' = Counted(counted, thr[t].expired)
    /\ StoreUntouched
    /\ UNCHANGED removals
    /\ UNCHANGED <<describe_vars, cache_vars, callback_vars, entity_vars, pure_vars, refresh_vars>>


\* get_session: session = self._sessions.get(session_id) and the expiry test;
\* an expired session leads into delete_session.
thread_get_session(t) ==
    \E sid \in KnownIds :
        /\ thr[t].pc = "idle"
        /\ thr' = IF sid \in DOMAIN sessions /\ is_expired(sessions[sid], now)
                  THEN [thr EXCEPT ![t].op = "get_session", ![t].sid = sid,
                                   ![t].pc = "d_in"]
                  ELSE [Returned(t, IF sid \in DOMAIN sessions
                                    THEN Some(sessions[sid]) ELSE None)
                          EXCEPT ![t].op = "get_session", ![t].sid = sid]
        /\ StoreUntouched
        /\ UNCHANGED <<removals, counted>>
        /\ UNCHANGED <<describe_vars, cache_vars, callback_vars, entity_vars, pure_vars, refresh_vars>>

\* delete_session is called.
thread_delete_session(t) ==
    \E sid \in KnownIds :
        /\ thr[t].pc = "idle"
        /\ thr' = [thr EXCEPT ![t].op = "delete_session", ![t].sid = sid,
                              ![t].pc = "d_in"]
        /\ StoreUntouched
        /\ UNCHANGED <<removals, counted>>
        /\ UNCHANGED <<describe_vars, cache_vars, callback_vars, entity_vars, pure_vars, refresh_vars>>

\* delete_session: if session_id in self._sessions
delete_in(t) ==
    /\ thr[t].pc = "d_in"
    /\ thr' = IF thr[t].sid \in DOMAIN sessions
              THEN [thr EXCEPT ![t].pc = "d_del"]
              ELSE Returned(t, IF thr[t].op = "get_session" THEN None
                               ELSE Some(FALSE))
    /\ StoreUntouched
    /\ UNCHANGED <<removals, counted>>
    /\ UNCHANGED <<describe_vars, cache_vars, callback_vars, entity_vars, pure_vars, refresh_vars>>

\* delete_session: del self._sessions[session_id]; return True
delete_del(t) ==
    /\ thr[t].pc = "d_del"
    /\ IF thr[t].sid \in DOMAIN sessions
       THEN /\ sessions' = Without(sessions, thr[t].sid)
            /\ removals' = Deleted(thr[t].sid, thr[t].op)
            /\ thr' = Returned(t, IF thr[t].op = "get_session" THEN None
                                  ELSE Some(TRUE))
       ELSE /\ thr' = Raises(t, "KeyError")
            /\ UNCHANGED <<sessions, removals>>
    /\ UNCHANGED <<pending_states, now, next_sid, next_state, ret, removed,
                   true_returns, called, counted>>
    /\ UNCHANGED <<describe_vars, cache_vars, callback_vars, entity_vars, pure_vars, refresh_vars>>

\* Every thread runs one operation of the store.
NextThreads ==
    \E t \in Threads :
        \/ thread_create_session(t)
        \/ cleanup_begin(t)
        \/ cleanup_next(t)
        \/ cleanup_del(t)
        \/ cleanup_return(t)
        \/ thread_get_session(t)
        \/ thread_delete_session(t)
        \/ delete_in(t)
        \/ delete_del(t)

SpecThreads == ThreadsInit /\ [][NextThreads]_vars

(***************************************************************************)
(* Properties of the concurrent session store.                              *)
(***************************************************************************)
Cleaning == {t \in Threads : thr[t].op = "cleanup_expired"}

\* C10: with cleanup_expired running beside get_session, delete_session,
\* create_session or another cleanup_expired, no operation raises, lazy expiry
\* and cleanup remove only expired sessions, and once all operations have
\* returned every session a cleanup collected has been removed exactly once
\* and counted by exactly one cleanup.
C10_CleanupSafeConcurrently ==
    Cleaning # {} =>
        /\ \A t \in Threads : thr[t].exc = ""
        /\ \A sid \in DOMAIN removals : \A i \in DOMAIN removals[sid] :
               removals[sid][i].by \in {"cleanup_expired", "get_session"}
                   => removals[sid][i].expired
        /\ (\A t \in Threads : thr[t].pc = "done") =>
               \A t \in Cleaning : \A i \in DOMAIN thr[t].expired :
                   LET sid == thr[t].expired[i]
                   IN  /\ sid \notin DOMAIN sessions
                       /\ sid \in DOMAIN removals
                       /\ Len(removals[sid]) = 1
                       /\ sid \in DOMAIN counted
                       /\ counted[sid] = 1


(***************************************************************************)
(* GET /login and GET /callback.  Both handlers are coroutines of the one   *)
(* event loop: a coroutine keeps the loop from the moment it is resumed     *)
(* until its next await (or its return), and only then can another one run. *)
(* The steps of a callback are the accesses of the store and the awaits.    *)
(***************************************************************************)
AwaitPoints == {"await_token", "await_userinfo", "done"}

yields_anywhere(pc) == TRUE

\* The coroutine gives up the event loop when it has reached pc.
yields(pc) == pc \in AwaitPoints

\* Request r may take a step: it holds the loop, or the loop is free.
Scheduled(r) == running \in {0, r}

Resumed(r, rec) ==
    /\ cb' = [cb EXCEPT ![r] = rec]
    /\ running' = IF yields(rec.pc) THEN 0 ELSE r

Responded(rec, status) == [rec EXCEPT !.pc = "done", !.status = status]

\* What the vendor answers to the token request and to the identity request:
\* 200, another status, or 200 with a body that lacks a field the handler
\* reads.
OAuthAnswers == {"200", "400", "malformed"}

\* GET /login: a state is created; the handler has no await.
login ==
    /\ running = 0
    /\ create_oauth_state

\* callback, validate_oauth_state: if state in self._pending_states
callback_in(r) ==
    \E state \in (1 .. next_state) \cup {Forged} :
        /\ cb[r].pc = "new"
        /\ Scheduled(r)
        /\ Resumed(r, IF validate_oauth_state_ret(pending_states, state)
                      THEN [cb[r] EXCEPT !.pc = "del", !.state = state]
                      ELSE Responded([cb[r] EXCEPT !.state = state,
                                                   !.valid = Some(FALSE)], 400))
        /\ UNCHANGED session_vars
        /\ UNCHANGED <<describe_vars, cache_vars, thread_vars, entity_vars, pure_vars, refresh_vars>>

\* callback, validate_oauth_state: del self._pending_states[state]; return
\* True; then the token request is sent and awaited.
callback_del(r) ==
    /\ cb[r].pc = "del"
    /\ Scheduled(r)
    /\ IF cb[r].state \in pending_states
       THEN /\ pending_states' =
                   validate_oauth_state_pending(pending_states, cb[r].state)
            /\ Resumed(r, [cb[r] EXCEPT !.pc = "await_token",
                                        !.valid = Some(TRUE),
                                        !.calls = @ + 1])
       ELSE /\ Resumed(r, Responded([cb[r] EXCEPT !.exc = "KeyError"], 500))
            /\ UNCHANGED pending_states
    /\ UNCHANGED <<sessions, now, next_sid, next_state, ret, removed,
                   true_returns, called>>
    /\ UNCHANGED <<describe_vars, cache_vars, thread_vars, entity_vars, pure_vars, refresh_vars>>

\* callback: the token response arrives; on 200 the identity request is sent
\* and awaited.
callback_token(r) ==
    \E answer \in OAuthAnswers :
        /\ cb[r].pc = "await_token"
        /\ Scheduled(r)
        /\ Resumed(r, IF answer = "200"
                      THEN [cb[r] EXCEPT !.pc = "await_userinfo",
                                         !.calls = @ + 1]
                      ELSE IF answer = "400" THEN Responded(cb[r], 400)
                      ELSE Responded([cb[r] EXCEPT !.exc = "KeyError"], 500))
        /\ UNCHANGED session_vars
        /\ UNCHANGED <<describe_vars, cache_vars, thread_vars, entity_vars, pure_vars, refresh_vars>>

\* callback: the identity response arrives; on 200 the session is created
\* and the cookie is set on the redirect.
callback_userinfo(r) ==
    \E answer \in OAuthAnswers, tokens \in Logins :
        /\ cb[r].pc = "await_userinfo"
        /\ Scheduled(r)
        /\ next_sid < MaxSessions
        /\ IF answer = "200"
           THEN /\ next_sid' = next_sid + 1
                /\ sessions' = Put(sessions, next_sid + 1,
                                   NewSession(next_sid + 1, tokens, now))
                /\ Resumed(r, Responded([cb[r] EXCEPT
                                            !.sid = Some(next_sid + 1)], 302))
           ELSE /\ Resumed(r, IF answer = "400" THEN Responded(cb[r], 400)
                              ELSE Responded([cb[r] EXCEPT !.exc = "KeyError"],
                                             500))
                /\ UNCHANGED <<sessions, next_sid>>
        /\ UNCHANGED <<pending_states, now, next_state, ret, removed,
                       true_returns, called>>
        /\ UNCHANGED <<describe_vars, cache_vars, thread_vars, entity_vars, pure_vars, refresh_vars>>

NextCallback ==
    \/ login
    \/ \E r \in Requests :
          \/ callback_in(r)
          \/ callback_del(r)
          \/ callback_token(r)
          \/ callback_userinfo(r)

SpecCallback == Init /\ [][NextCallback]_vars

(***************************************************************************)
(* Properties of the OAuth callback.                                        *)
(***************************************************************************)
Validated(state) ==
    {r \in Requests : cb[r].state = state /\ cb[r].valid # None}

\* C11: of the callback requests in flight that validate the same issued
\* state, exactly one is told true, every other one is told false, and none
\* raises inside validate_oauth_state.
C11_ValidationIsAtomic ==
    /\ \A r \in Requests : ~ (cb[r].exc = "KeyError" /\ cb[r].valid = None
                                /\ cb[r].state # 0)
    /\ \A state \in OAuthStates :
          Validated(state) # {} =>
              Cardinality({r \in Validated(state) :
                              cb[r].valid = Some(TRUE)}) = 1

\* Two requests carry the same state; the second is refused while the first,
\* accepted, still awaits the token response.
C11_Witness ==
    \E r1, r2 \in Requests :
        /\ r1 # r2
        /\ cb[r1].state = cb[r2].state
        /\ cb[r1].valid = Some(TRUE)
        /\ cb[r1].pc = "await_token"
        /\ cb[r2].valid = Some(FALSE)
        /\ cb[r2].status = 400


\* The request has been answered without a session.
Failed(request) == request.pc = "done" /\ request.status # 302

\* C35: the state a callback presented and found pending is no longer
\* pending, whatever became of that callback; a callback that failed has
\* created no session, and the sessions are those of the callbacks that
\* succeeded; a callback whose state was not pending (never issued, or
\* consumed by an earlier callback) has sent nothing to the vendor and has
\* created no session.
C35_StateConsumedByFirstCallback ==
    /\ \A r \in Requests :
           /\ cb[r].valid = Some(TRUE) => cb[r].state \notin pending_states
           /\ Failed(cb[r]) => cb[r].sid = None
           /\ cb[r].valid = Some(FALSE) =>
                  /\ cb[r].calls = 0
                  /\ cb[r].sid = None
                  /\ cb[r].status = 400
    /\ DOMAIN sessions = { cb[r].sid[1] : r \in {x \in Requests : cb[x].sid # None} }
    /\ \A r1, r2 \in Requests :
           (r1 # r2 /\ cb[r1].state = cb[r2].state /\ cb[r1].valid = Some(TRUE))
               => cb[r2].valid # Some(TRUE) /\ cb[r2].calls = 0

\* The first callback of a state failed at the token request or at the
\* identity request, and the second callback of the state was refused.
C35_Witness ==
    \E r1, r2 \in Requests :
        /\ r1 # r2
        /\ cb[r1].state = cb[r2].state
        /\ cb[r1].valid = Some(TRUE)
        /\ Failed(cb[r1])
        /\ cb[r1].calls = 2
        /\ cb[r2].valid = Some(FALSE)
        /\ cb[r2].status = 400
        /\ sessions = << >>


(***************************************************************************)
(* Functions of DataCloudService, each applied once to an argument drawn   *)
(* from a bounded set.                                                     *)
(***************************************************************************)
\* Everything but the function looked at is idle.
OthersIdle ==
    /\ SessionInit
    /\ DescribeIdle
    /\ CacheIdle
    /\ ThreadsIdle
    /\ CallbackIdle
    /\ EntitiesIdle
    /\ RefreshIdle

\* fn becomes the function op applied to the argument it was started with.
Apply(op, val) ==
    /\ fn.op = ""
    /\ fn' = Applied(op, fn.arg, Some(val))
    /\ UNCHANGED <<session_vars, describe_vars, cache_vars, thread_vars,
                   callback_vars, entity_vars, refresh_vars>>

\* The longest list a fetch path returns.
MaxListed == 2

\* The entities a fetch path returns for the names it found: the record at
\* position k is told from every other by its display name.
BasicInfos(path, names) ==
    [k \in DOMAIN names |->
        [name |-> names[k], display_name |-> [path |-> path, pos |-> k]]]

PathResults(path) ==
    {Raised} \cup { Answer(BasicInfos(path, names)) :
                        names \in ListsOf(EntityNames, MaxListed) }

\* A mutant: every listed entity is appended.
append_unseen_or_seen(entities, listed) == entities \o listed

\* for e in listed: if e.name not in seen_names: entities.append(e)
RECURSIVE append_unseen(_, _)
append_unseen(entities, listed) ==
    IF listed = << >> THEN entities
    ELSE append_unseen(
             IF Head(listed).name \in Names(entities) THEN entities
             ELSE Append(entities, Head(listed)),
             Tail(listed))

\* _list_dmo_entities on the entities of its two paths: a path is skipped
\* without credentials, and its exception is swallowed.
list_dmo_entity_infos(credentials, graph, meta) ==
    LET from_graph == IF credentials /\ graph.ok
                      THEN append_unseen(<< >>, graph.body)
                      ELSE << >>
    IN  IF credentials /\ meta.ok
        THEN append_unseen(from_graph, meta.body)
        ELSE from_graph

MergeInit ==
    /\ OthersIdle
    /\ fn \in { Applied("", [credentials |-> c, graph |-> g, meta |-> m], None) :
                    c \in BOOLEAN, g \in PathResults("graph"),
                    m \in PathResults("metadata") }

apply_list_dmo_entities ==
    Apply("_list_dmo_entities",
          list_dmo_entity_infos(fn.arg.credentials, fn.arg.graph, fn.arg.meta))

NextMerge == apply_list_dmo_entities

SpecMerge == MergeInit /\ [][NextMerge]_vars

\* What the two paths yield, in the order they are encountered.
Yielded(arg) ==
    (IF arg.credentials /\ arg.graph.ok THEN arg.graph.body ELSE << >>)
        \o (IF arg.credentials /\ arg.meta.ok THEN arg.meta.body ELSE << >>)

\* C21: in the list of _list_dmo_entities every name occurs exactly once,
\* with the record encountered first (the data-graph path before the
\* metadata path, each in its order), and every name either path yields is
\* present.
C21_MergedOnceFirstKept ==
    fn.op = "_list_dmo_entities" =>
        LET out == fn.val[1]
            seen == Yielded(fn.arg)
        IN  /\ \A i, j \in DOMAIN out : out[i].name = out[j].name => i = j
            /\ Names(out) = Names(seen)
            /\ \A i \in DOMAIN out :
                   \E k \in DOMAIN seen :
                       /\ out[i] = seen[k]
                       /\ \A h \in 1 .. k - 1 : seen[h].name # seen[k].name

\* A name of both paths is listed with the record of the data graph, once,
\* and a name of the metadata path alone follows it.
C21_Witness ==
    /\ fn.op = "_list_dmo_entities"
    /\ fn.arg.graph = Answer(BasicInfos("graph", <<"A__dlm", "A__dlm">>))
    /\ fn.arg.meta = Answer(BasicInfos("metadata", <<"A__dlm", "B__dlm">>))
    /\ fn.val[1] = <<BasicInfos("graph", <<"A__dlm">>)[1],
                     BasicInfos("metadata", <<"A__dlm", "B__dlm">>)[2]>>

(***************************************************************************)
(* Failures reported to callers: the detail of a route's error and the     *)
(* messages of a per-name error map, as built from the text the vendor     *)
(* answered with.                                                          *)
(***************************************************************************)
\* The longest vendor text looked at.
MaxPayload == 300

\* A vendor text of n characters.
Text(n) == [i \in 1 .. n |-> "x"]

PayloadLengths == {0, 99, 100, 101, 200, 201, MaxPayload}

\* text[:k]
Slice(text, k) == SubSeq(text, 1, Min(Len(text), k))

\* A message: the words the code writes, followed by the text it forwards.
Message(fixed, text) == [fixed |-> fixed, text |-> text]

\* The longest slice of a vendor text any handler takes.
MessageBound == 200

\* The places where a failure is put into a response.
FailureSites ==
    {"describe_objects.composite.message", "describe_objects.composite.body",
     "describe_objects.fallback", "describe_objects.fallback.unexpected",
     "describe_object.route", "describe_object.route.not_found",
     "describe_object.route.unexpected", "callback.route",
     "describe_entities.http", "describe_entities.other",
     "describe_entity.route.http", "describe_entity.route.not_found",
     "describe_entity.route.unexpected"}

\* The message a site reports for a vendor text (the message of the
\* composite sub-response, the body of the token response, response.text)
\* or, at the sites that catch an exception, for the text str(e) of it.
report(site, text) ==
    CASE site = "describe_objects.composite.message" -> Message("", text)
      [] site = "describe_objects.composite.body" -> Message("", text)
      [] site = "describe_objects.fallback" -> Message("", text)
      [] site = "describe_objects.fallback.unexpected" ->
             Message("Unexpected error: ", text)
      [] site = "describe_object.route" ->
             Message("Failed to describe {object_name}: ", text)
      [] site = "describe_object.route.not_found" ->
             Message("Object '{object_name}' not found or not accessible",
                     << >>)
      [] site = "describe_object.route.unexpected" ->
             Message("Unexpected error describing {object_name}: ", text)
      [] site = "callback.route" ->
             Message("Failed to exchange code for tokens: ", text)
      [] site = "describe_entities.http" ->
             Message("HTTP {status_code}: ", Slice(text, 100))
      [] site = "describe_entities.other" -> Message("", text)
      [] site = "describe_entity.route.http" ->
             Message("Failed to describe {entity_name}: ",
                     Slice(text, MessageBound))
      [] site = "describe_entity.route.not_found" ->
             Message("Entity '{entity_name}' not found in Data Cloud", << >>)
      [] site = "describe_entity.route.unexpected" ->
             Message("Unexpected error describing {entity_name}: ", text)

FailureInit ==
    /\ OthersIdle
    /\ fn \in { Applied("", [site |-> s, text |-> Text(n)], None) :
                    s \in FailureSites, n \in PayloadLengths }

apply_report == Apply("report", report(fn.arg.site, fn.arg.text))

NextFailure == apply_report

SpecFailure == FailureInit /\ [][NextFailure]_vars

\* C24: every failure reported to a caller forwards a bounded part of the
\* vendor's text, whatever the length of that text: a text longer than the
\* bound is never forwarded whole.
C24_FailuresAreBounded ==
    fn.op = "report" => Len(fn.val[1].text) <= MessageBound

(***************************************************************************)
(* DataCloudService._transform_entity_describe on the entity the vendor     *)
(* returns.                                                                *)
(***************************************************************************)
\* The longest list of fields and of primaryKeys entries looked at.
MaxFields == 2

\* The longest list of explicit relationships looked at.
MaxRelationships == 1

\* A field of the vendor's entity: name, isPrimaryKey, isForeignKey and
\* referenceTo (None: absent).
RawField(name, is_primary_key, is_foreign_key, reference_to) ==
    [name |-> name, isPrimaryKey |-> is_primary_key,
     isForeignKey |-> is_foreign_key, referenceTo |-> reference_to]

RawFields ==
    { RawField(n, pk, fk, ref) :
        n \in {"f", "g"}, pk \in BOOLEAN, fk \in BOOLEAN,
        ref \in {None, Some("Account__dlm")} }

\* f"{field.name}_rel": a relationship name is the sequence of its parts.
rel_name(name) == <<name, "_rel">>

\* An explicit relationship of the vendor's entity.
RawRelationships ==
    { [name |-> rel_name("f"), fromField |-> "f",
       toEntity |-> "Contact__dlm", relationshipType |-> "Lookup"],
      [name |-> <<"owner">>, fromField |-> "g", toEntity |-> "User__dlm",
       relationshipType |-> "Lookup"] }

\* An entry of the vendor's primaryKeys list: a string, an object with or
\* without a name, or something else (a number).
RawKey(kind, name) == [kind |-> kind, name |-> name]

RawKeys ==
    { RawKey("str", Some("Id__c")), RawKey("dict", Some("Key__c")),
      RawKey("dict", None), RawKey("int", None) }

RawEntities ==
    { [fields |-> fs, relationships |-> rs, primaryKeys |-> ks] :
        fs \in ListsOf(RawFields, MaxFields),
        rs \in ListsOf(RawRelationships, MaxRelationships),
        ks \in {<< >>, <<RawKey("str", Some("Id__c"))>>,
                <<RawKey("dict", Some("Key__c")), RawKey("str", Some("Id__c"))>>,
                <<RawKey("dict", None), RawKey("int", None)>>,
                <<RawKey("int", None), RawKey("dict", Some("Key__c"))>>} }

\* DataCloudFieldInfo of a field.
field_info(field) ==
    [name |-> field.name, is_primary_key |-> field.isPrimaryKey,
     is_foreign_key |-> field.isForeignKey, reference_to |-> field.referenceTo]

\* DataCloudRelationshipInfo of an explicit relationship.
relationship_info(rel) ==
    [name |-> rel.name, from_field |-> rel.fromField,
     to_entity |-> rel.toEntity, relationship_type |-> rel.relationshipType]

\* The relationship made of a foreign-key field.
implicit(field) ==
    [name |-> rel_name(field.name), from_field |-> field.name,
     to_entity |-> field.reference_to[1], relationship_type |-> "ForeignKey"]

\* A mutant: a relationship is made of the field whatever is there already.
synthesize_always(relationships, field) ==
    IF field.is_foreign_key /\ truthy(field.reference_to)
    THEN Append(relationships, implicit(field))
    ELSE relationships

\* if field.is_foreign_key and field.reference_to:
\*     if not any(r.name == rel_name for r in relationships): append
synthesize(relationships, field) ==
    IF field.is_foreign_key /\ truthy(field.reference_to)
          /\ ~ \E i \in DOMAIN relationships :
                   relationships[i].name = rel_name(field.name)
    THEN Append(relationships, implicit(field))
    ELSE relationships

RECURSIVE with_implicit(_, _)
with_implicit(relationships, fields) ==
    IF fields = << >> THEN relationships
    ELSE with_implicit(synthesize(relationships, Head(fields)), Tail(fields))

\* The names of the fields flagged as primary key, in field order.
RECURSIVE flagged_keys(_)
flagged_keys(fields) ==
    IF fields = << >> THEN << >>
    ELSE (IF Head(fields).is_primary_key THEN <<Head(fields).name>>
          ELSE << >>) \o flagged_keys(Tail(fields))

\* for pk in raw_pks: a dict gives pk.get("name", ""), a str itself
RECURSIVE listed_keys(_)
listed_keys(raw_pks) ==
    IF raw_pks = << >> THEN << >>
    ELSE (IF Head(raw_pks).kind = "dict"
          THEN <<IF Head(raw_pks).name = None THEN ""
                 ELSE Head(raw_pks).name[1]>>
          ELSE IF Head(raw_pks).kind = "str" THEN <<Head(raw_pks).name[1]>>
          ELSE << >>) \o listed_keys(Tail(raw_pks))

\* A mutant: the primaryKeys list is always added.
primary_keys_merged(fields, raw_pks) ==
    flagged_keys(fields) \o listed_keys(raw_pks)

\* if not primary_keys: the fallback
primary_keys_of(fields, raw_pks) ==
    IF flagged_keys(fields) = << >> THEN listed_keys(raw_pks)
    ELSE flagged_keys(fields)

Explicit(entity) ==
    [i \in DOMAIN entity.relationships |->
        relationship_info(entity.relationships[i])]

FieldInfos(entity) ==
    [i \in DOMAIN entity.fields |-> field_info(entity.fields[i])]

transform_entity_describe(entity) ==
    [fields |-> FieldInfos(entity),
     relationships |-> with_implicit(Explicit(entity), FieldInfos(entity)),
     primary_keys |-> primary_keys_of(FieldInfos(entity), entity.primaryKeys)]

TransformInit ==
    /\ OthersIdle
    /\ fn \in { Applied("", entity, None) : entity \in RawEntities }

apply_transform_entity_describe ==
    Apply("_transform_entity_describe", transform_entity_describe(fn.arg))

NextTransform == apply_transform_entity_describe

SpecTransform == TransformInit /\ [][NextTransform]_vars

\* The relationships of the output that were made of fields: the ones after
\* the explicit ones.
Synthesized(entity, out) ==
    { i \in DOMAIN out.relationships : i > Len(entity.relationships) }

\* The output has exactly one synthesized relationship of the derived name
\* of the field, from that field.
Navigable(entity, out, field) ==
    /\ Cardinality({ i \in Synthesized(entity, out) :
                       out.relationships[i].name = rel_name(field.name) }) = 1
    /\ \A i \in Synthesized(entity, out) :
           out.relationships[i].name = rel_name(field.name) =>
               out.relationships[i].from_field = field.name

IsExplicit(entity, name) ==
    \E i \in DOMAIN entity.relationships :
        entity.relationships[i].name = name

\* C29: after _transform_entity_describe every field flagged as a foreign
\* key whose derived name is not the name of an explicit relationship has
\* exactly one synthesized relationship of that name from that field, and no
\* relationship is added for a derived name that is explicit.
C29_EveryForeignKeyIsNavigable ==
    fn.op = "_transform_entity_describe" =>
        \A k \in DOMAIN fn.arg.fields :
            LET field == fn.arg.fields[k]
                name == rel_name(field.name)
            IN  field.isForeignKey =>
                    IF IsExplicit(fn.arg, name)
                    THEN \A i \in Synthesized(fn.arg, fn.val[1]) :
                             fn.val[1].relationships[i].name # name
                    ELSE Navigable(fn.arg, fn.val[1], field)

\* C29, amended: the same for every field flagged as a foreign key that has
\* a reference target; a flagged field without one gets no relationship.
C29_ReferencedForeignKeyIsNavigable ==
    fn.op = "_transform_entity_describe" =>
        /\ \A k \in DOMAIN fn.arg.fields :
               LET field == fn.arg.fields[k]
                   name == rel_name(field.name)
               IN  (field.isForeignKey /\ truthy(field.referenceTo)) =>
                       IF IsExplicit(fn.arg, name)
                       THEN \A i \in Synthesized(fn.arg, fn.val[1]) :
                                fn.val[1].relationships[i].name # name
                       ELSE Navigable(fn.arg, fn.val[1], field)
        /\ \A i \in Synthesized(fn.arg, fn.val[1]) :
               \E k \in DOMAIN fn.arg.fields :
                   /\ fn.arg.fields[k].isForeignKey
                   /\ truthy(fn.arg.fields[k].referenceTo)
                   /\ fn.val[1].relationships[i] =
                          implicit(field_info(fn.arg.fields[k]))

\* Field f is a foreign key with an explicit relationship f_rel, field g a
\* foreign key without one: the output has the explicit f_rel and one
\* synthesized g_rel.
C29_Witness ==
    /\ fn.op = "_transform_entity_describe"
    /\ Len(fn.arg.fields) = 2
    /\ fn.arg.fields[1].name = "f" /\ fn.arg.fields[2].name = "g"
    /\ \A k \in {1, 2} : /\ fn.arg.fields[k].isForeignKey
                         /\ fn.arg.fields[k].referenceTo = Some("Account__dlm")
    /\ Len(fn.arg.relationships) = 1
    /\ fn.arg.relationships[1].name = rel_name("f")
    /\ Len(fn.val[1].relationships) = 2
    /\ fn.val[1].relationships[1].to_entity = "Contact__dlm"
    /\ fn.val[1].relationships[2] =
           [name |-> rel_name("g"), from_field |-> "g",
            to_entity |-> "Account__dlm", relationship_type |-> "ForeignKey"]

\* The entries of the primaryKeys list that are accepted: strings, and
\* objects with a name.
Accepted(key) == key.kind = "str" \/ (key.kind = "dict" /\ key.name # None)

IsFlagged(field) == field.isPrimaryKey

IsName(name) == name # ""

LockOf(cache) ==
    CASE cache = "objects" -> "_cache_lock"
      [] cache = "dc_token" -> "_dc_token_lock"
      [] cache = "dc_entities" -> "_dc_cache_lock"

Ins(i, cache) == [i |-> i, cache |-> cache]

Accesses == {"contains", "getitem", "setitem", "clear"}

\* with lock: if cache_key in cache: return cache[cache_key]
lookup_section(cache) == <<Ins("acquire", cache), Ins("contains", cache)>>

\* the rest of the block when the key is in the cache
hit_path(cache) == <<Ins("getitem", cache), Ins("release", cache)>>

\* A mutant: the store is not inside `with lock:`.
store_section_unlocked(cache) == <<Ins("setitem", cache)>>

\* with lock: cache[cache_key] = value
store_section(cache) ==
    <<Ins("acquire", cache), Ins("setitem", cache), Ins("release", cache)>>

\* A cached operation: the lookup when the cache is used, the vendor
\* request outside every lock, the store, and the end of the function.
cached_operation(cache, use_cache) ==
    (IF use_cache THEN lookup_section(cache) ELSE << >>)
    \o <<Ins("fetch", cache)>> \o store_section(cache) \o <<Ins("end", cache)>>

\* with _dc_cache_lock: _dc_entities_cache.clear()
clear_section ==
    <<Ins("acquire", "dc_entities"), Ins("clear", "dc_entities"),
      Ins("release", "dc_entities")>>

\* The instructions of an operation of the services.
Program(op, use_cache) ==
    CASE op = "list_objects" -> cached_operation("objects", use_cache)
      [] op = "list_entities" ->
             cached_operation("dc_token", TRUE)
             \o cached_operation("dc_entities", use_cache)
      [] op = "clear_cache" -> clear_section

LockedOps == {"list_objects", "list_entities", "clear_cache"}

\* The instructions that follow the end of the function being run.
RECURSIVE AfterEnd(_)
AfterEnd(code) ==
    IF code = << >> THEN << >>
    ELSE IF Head(code).i = "end" THEN Tail(code)
    ELSE AfterEnd(Tail(code))

\* The end of a function is no step of its own.
RECURSIVE Rest(_)
Rest(code) ==
    IF code # << >> /\ Head(code).i = "end" THEN Rest(Tail(code)) ELSE code

\* A caller: the operation it runs, the instructions left, the locks it
\* holds and the value its vendor request answered.
Caller(op, code, holds, val) ==
    [op |-> op, code |-> code, holds |-> holds, val |-> val]

NoCaller == Caller("", << >>, {}, 0)

\* The caller after a step: nothing is kept of an operation that returned.
Stepped(caller, code, holds, val) ==
    IF code = << >> THEN NoCaller ELSE Caller(caller.op, code, holds, val)

\* The one key of each cache the callers contend for.
LockedSession == CHOOSE s \in OneSession : TRUE

KeyOf(cache) ==
    CASE cache = "objects" ->
             objects_cache_key(SalesforceService(LockedSession.access_token,
                                                 LockedSession.instance_url,
                                                 None))
      [] cache = "dc_token" ->
             exchange_cache_key(DataCloudService(LockedSession.access_token,
                                                 LockedSession.instance_url))
      [] cache = "dc_entities" ->
             entities_cache_key(DataCloudService(LockedSession.access_token,
                                                 LockedSession.instance_url),
                                None)

CacheOf(cache) ==
    CASE cache = "objects" -> objects_cache
      [] cache = "dc_token" -> dc_token_cache
      [] cache = "dc_entities" -> dc_entities_cache

\* The vendor requests the callers may start.
MaxFetches == 2

Held(lock) == \E t \in Threads : lock \in thr[t].holds

Next_is(t, i) == thr[t].code # << >> /\ Head(thr[t].code).i = i

LocksInit ==
    /\ SessionInit
    /\ DescribeIdle
    /\ CacheIdle
    /\ CallbackIdle
    /\ EntitiesIdle
    /\ RefreshIdle
    /\ PureIdle
    /\ thr = [t \in Threads |-> NoCaller]
    /\ removals = << >>
    /\ counted = << >>

locks_frame ==
    UNCHANGED <<session_vars, describe_vars, callback_vars, entity_vars,
                pure_vars, refresh_vars, removals, counted, c_ret, inserted,
                lost>>

\* A caller starts an operation.
begin ==
    \E t \in Threads, op \in LockedOps, use_cache \in BOOLEAN :
        /\ thr[t].code = << >>
        /\ op # "list_objects" => use_cache
        /\ thr' = [thr EXCEPT ![t] = Caller(op, Program(op, use_cache), {}, 0)]
        /\ UNCHANGED <<timer, objects_cache, dc_token_cache, dc_entities_cache>>
        /\ locks_frame

\* lock.acquire(): the caller waits while another one holds the lock.
acquire ==
    \E t \in Threads :
        /\ Next_is(t, "acquire")
        /\ LET lock == LockOf(Head(thr[t].code).cache)
           IN  /\ ~ Held(lock)
               /\ thr' = [thr EXCEPT ![t] = Stepped(@, Tail(@.code),
                                                    @.holds \cup {lock}, @.val)]
        /\ UNCHANGED <<timer, objects_cache, dc_token_cache, dc_entities_cache>>
        /\ locks_frame

\* lock.release() at the end of the `with` block.
release ==
    \E t \in Threads :
        /\ Next_is(t, "release")
        /\ thr' = [thr EXCEPT ![t] =
                      Stepped(@, Rest(Tail(@.code)),
                              @.holds \ {LockOf(Head(@.code).cache)}, @.val)]
        /\ UNCHANGED <<timer, objects_cache, dc_token_cache, dc_entities_cache>>
        /\ locks_frame

\* cache_key in cache: on a hit the rest of the function is the return of
\* the entry, on a miss the block ends.
key_in_cache ==
    \E t \in Threads :
        /\ Next_is(t, "contains")
        /\ LET cache == Head(thr[t].code).cache
           IN  thr' = [thr EXCEPT ![t].code =
                         IF ttl_contains(CacheOf(cache), KeyOf(cache), timer)
                         THEN hit_path(cache) \o AfterEnd(@)
                         ELSE <<Ins("release", cache)>> \o Tail(@)]
        /\ UNCHANGED <<timer, objects_cache, dc_token_cache, dc_entities_cache>>
        /\ locks_frame

\* return cache[cache_key]
getitem ==
    \E t \in Threads :
        /\ Next_is(t, "getitem")
        /\ LET cache == Head(thr[t].code).cache
           IN  /\ ttl_contains(CacheOf(cache), KeyOf(cache), timer)
               /\ thr' = [thr EXCEPT ![t].code = Tail(@),
                                     ![t].val = CacheOf(cache)[KeyOf(cache)].val]
        /\ UNCHANGED <<timer, objects_cache, dc_token_cache, dc_entities_cache>>
        /\ locks_frame

\* The vendor request, outside every lock: it answers with the data of the
\* time it started at, or fails, and then the operation ends.
fetch ==
    \E t \in Threads, ok \in BOOLEAN :
        /\ Next_is(t, "fetch")
        /\ ok => timer < MaxFetches
        /\ thr' = [thr EXCEPT ![t] =
                      Stepped(@, IF ok THEN Tail(@.code) ELSE << >>, @.holds,
                              timer + 1)]
        /\ timer' = IF ok THEN timer + 1 ELSE timer
        /\ UNCHANGED <<objects_cache, dc_token_cache, dc_entities_cache>>
        /\ locks_frame

\* cache[cache_key] = value
setitem ==
    \E t \in Threads :
        /\ Next_is(t, "setitem")
        /\ LET cache == Head(thr[t].code).cache
               stored == ttl_setitem(CacheOf(cache), KeyOf(cache), thr[t].val,
                                     timer, TTLOf[cache])
           IN  /\ objects_cache' =
                      IF cache = "objects" THEN stored ELSE objects_cache
               /\ dc_token_cache' =
                      IF cache = "dc_token" THEN stored ELSE dc_token_cache
               /\ dc_entities_cache' =
                      IF cache = "dc_entities" THEN stored ELSE dc_entities_cache
        /\ thr' = [thr EXCEPT ![t] =
                      Stepped(@, Rest(Tail(@.code)), @.holds, 0)]
        /\ UNCHANGED timer
        /\ locks_frame

\* _dc_entities_cache.clear()
clear ==
    \E t \in Threads :
        /\ Next_is(t, "clear")
        /\ dc_entities_cache' = << >>
        /\ thr' = [thr EXCEPT ![t] = Stepped(@, Tail(@.code), @.holds, @.val)]
        /\ UNCHANGED <<timer, objects_cache, dc_token_cache>>
        /\ locks_frame

NextLocks ==
    \/ begin
    \/ acquire
    \/ release
    \/ key_in_cache
    \/ getitem
    \/ fetch
    \/ setitem
    \/ clear

SpecLocks == LocksInit /\ [][NextLocks]_vars

\* The caller is about to read or change the cache, inside its section.
Inside(t, cache) ==
    /\ thr[t].code # << >>
    /\ Head(thr[t].code).i \in Accesses
    /\ Head(thr[t].code).cache = cache

LockedCaches == {"objects", "dc_token", "dc_entities"}

\* C33: every read, insert and clear of a cache is made by a caller that
\* holds the lock of that cache, and no two callers are inside a lookup or
\* an update of the same cache at the same time.
C33_AccessesHoldTheOwnLock ==
    \A cache \in LockedCaches :
        /\ \A t \in Threads : Inside(t, cache) => LockOf(cache) \in thr[t].holds
        /\ \A t, u \in Threads :
               Inside(t, cache) /\ Inside(u, cache) => t = u

\* One caller is inside the lookup of the object-list cache while another
\* waits for the lock to store its list.
C33_Witness ==
    \E t, u \in Threads :
        /\ Inside(t, "objects")
        /\ Head(thr[t].code).i = "getitem"
        /\ thr[u].code = store_section("objects") \o <<Ins("end", "objects")>>
        /\ thr[u].val > 0

=============================================================================
